---- MODULE Spec2Model ----
(***************************************************************************)
(* Model of the topic clustering service (app/core/clustering.py), of the  *)
(* datapoint store it writes to (app/core/storage.py) and of the risk      *)
(* aggregator (app/core/pattern_detection.py).                             *)
(*                                                                         *)
(* Numbers: cosine similarities are compared exactly, on integer vectors,  *)
(* by cross-multiplication; scores are integers in thousandths.            *)
(***************************************************************************)
EXTENDS Integers, Sequences, FiniteSets, TLC

VARIABLES
  store,        \* datapoints collection: _id -> [cluster_id, clustered]
  input,        \* the `datapoints` argument of the clustering call (sequence of _id)
  call,         \* the clustering call made last: [op, min_cluster_size]
  clusters,     \* the mapping that call returned: label -> sequence of _id
  writes,       \* the update_cluster_id requests that call issued, in order
  raised,       \* TRUE when that call ended with an exception
  lastOutcome,  \* per datapoint, what the most recent run that processed it made of it
  cluster,      \* what the collection holds under the cluster id handed to analyze_cluster
  analysis,     \* the record analyze_cluster returned
  batch,        \* one analyze_all_clusters call: the clusters it enumerated and its result
  again,        \* the record a second analyze_cluster call on the same cluster id returned
  timeline,     \* published_at hour -> number of the cluster's datapoints published then
  runs,         \* two concurrent cluster_datapoints calls: their writes and how far each got
  sources,      \* one analyze_source_credibility call: the source names and its report
  articles,     \* one detect_contradictions call: the datapoints, its pairs and its report
  windows,      \* one _create_time_windows call: the sorted timestamps and the windows
  reads         \* one analyze_cluster call: what each get_datapoints_by_cluster returned

vars ==
  <<store, input, call, clusters, writes, raised, lastOutcome, cluster, analysis, batch, again,
    timeline, runs, sources, articles,
    windows, reads>>

\* the calls of single analyzers and helpers
details == <<sources, articles, windows, reads>>

\* the state of the batch analysis, of the repeated analysis and of the
\* concurrent runs and the timestamps of the analysed cluster, which the
\* other operations leave alone
others == <<batch, again, timeline, runs, details>>

----------------------------------------------------------------------------
(* Bounds of the model. *)

\* longest `datapoints` list handed to one clustering call
MaxInput == 5
\* largest min_cluster_size override a caller passes
MaxMinPts == 4
\* longest datapoint_ids list handed to cluster_datapoints_by_ids
MaxIds == 2
\* clusters of 0..SmallSize datapoints are analysed, and clusters of MaxSize
SmallSize == 3
MaxSize == 24
\* most clusters one analyze_all_clusters call enumerates
MaxBatch == 3
\* most datapoints of one cluster published in one hour
MaxPerHour == 10
\* how far from the ends of its range a count of a cluster is taken
Slack == 1
\* longest `datapoints` list handed to each of two concurrent clustering calls
MaxRun == 3
\* most datapoints of a cluster whose source names are told apart
MaxSources == 2
\* most datapoints of a cluster whose titles and embeddings are told apart
MaxArticles == 3
\* longest list handed to _create_time_windows
MaxPoints == 5

----------------------------------------------------------------------------
(* Configuration of ClusteringService.__init__ and parameter defaults. *)

\* eps = 0.30, in hundredths
EpsPct == 30
\* min_samples = 2
DefaultMinSamples == 2
\* similarity_threshold = 0.75 of cluster_datapoints_simple, in hundredths
SimpleThresholdPct == 75
\* `min_cluster_size: Optional[int] = None`: the absent override
None == 0
\* `min_size = min_cluster_size if min_cluster_size else 2` of the two entry points
FallbackMinSize == 2
\* cluster_id of a datapoint never written by update_cluster_id (None)
NoCluster == <<>>
\* f"cluster_{label}"
ClusterId(label) == <<"cluster", label>>

----------------------------------------------------------------------------
(* The documents. Each has an _id (its index), a published_at hour and an  *)
(* embedding field: a list of numbers (possibly empty), a value that is    *)
(* not a list (a non-empty string), or no embedding key at all.            *)

List(v) == [kind |-> "list", vec |-> v]

NonList == [kind |-> "nonlist", vec |-> <<>>]

Absent == [kind |-> "absent", vec |-> <<>>]

\* `stored`: the document is in the datapoints collection; the others are
\* documents a caller builds and passes to a clustering function directly
Corpus ==
  << [stored |-> TRUE,  published_at |-> 8, embedding |-> List(<<1, 1, 1, 1>>)],
     [stored |-> TRUE,  published_at |-> 2, embedding |-> List(<<1, 1, 1, -1>>)],
     [stored |-> TRUE,  published_at |-> 7, embedding |-> List(<<3, 1, 1, 0>>)],
     [stored |-> TRUE,  published_at |-> 3, embedding |-> List(<<1, 3, 1, 0>>)],
     [stored |-> FALSE, published_at |-> 4, embedding |-> List(<<1, 1, 3, 0>>)],
     [stored |-> TRUE,  published_at |-> 5, embedding |-> List(<<>>)],
     [stored |-> FALSE, published_at |-> 6, embedding |-> NonList],
     [stored |-> FALSE, published_at |-> 1, embedding |-> Absent],
     [stored |-> FALSE, published_at |-> 0, embedding |-> List(<<1, 1>>)] >>

DocIds == 1..Len(Corpus)

Embedding(d) == Corpus[d].embedding

\* the documents whose embedding has another length than that of document 1
OtherLength ==
  {d \in DocIds : /\ Embedding(d).kind = "list"
                  /\ Len(Embedding(d).vec) \notin {0, Len(Embedding(1).vec)}}

\* StoredDataPoint declares `embedding: List[float]`: what ingestion stores
\* always carries a list, possibly the empty default
StoredIds == {d \in DocIds : Corpus[d].stored}

\* the hour at which the runs take place
Now == 9

----------------------------------------------------------------------------
(* Sequences. *)

Range(s) == {s[i] : i \in DOMAIN s}

Min(S) == CHOOSE x \in S : \A y \in S : x <= y

RECURSIVE Ascending(_)
Ascending(S) == IF S = {} THEN <<>> ELSE <<Min(S)>> \o Ascending(S \ {Min(S)})

Front(s) == SubSeq(s, 1, Len(s) - 1)

Last(s) == s[Len(s)]

\* sequences without repetition over S, of length at most n
RECURSIVE DistinctSeqs(_, _)
DistinctSeqs(S, n) ==
  IF n = 0 THEN {<<>>}
  ELSE LET shorter == DistinctSeqs(S, n - 1)
       IN shorter \cup {Append(p[1], p[2]) :
                          p \in {q \in shorter \X S : Len(q[1]) = n - 1 /\ q[2] \notin Range(q[1])}}

\* sequences over S of length 1..n, repetitions allowed
SeqsUpTo(S, n) == UNION {[1..k -> S] : k \in 1..n}

----------------------------------------------------------------------------
(* cosine_similarity and the cosine distance of sklearn's DBSCAN, compared *)
(* with a threshold given in hundredths.                                   *)

RECURSIVE DotFrom(_, _, _)
DotFrom(a, b, i) == IF i > Len(a) THEN 0 ELSE a[i] * b[i] + DotFrom(a, b, i + 1)

Dot(a, b) == DotFrom(a, b, 1)

\* np.dot / np.array fail on a value that is not a list of numbers and on
\* two vectors of different lengths
CosineRaises(e1, e2) ==
  \/ e1.kind # "list"
  \/ e2.kind # "list"
  \/ Len(e1.vec) # Len(e2.vec)

\* cosine_similarity(v1, v2) >= pct/100, for pct >= 0; a zero norm gives 0.0
SimilarityAtLeast(v1, v2, pct) ==
  LET d == Dot(v1, v2)
      n == Dot(v1, v1) * Dot(v2, v2)
  IN IF n = 0 THEN pct <= 0
     ELSE d >= 0 /\ 10000 * d * d >= pct * pct * n

\* cosine distance 1 - similarity <= eps
WithinEps(v1, v2) == SimilarityAtLeast(v1, v2, 100 - EpsPct)

\* the pairs of documents whose embeddings lie within eps of each other
\* (the radius-neighbours relation DBSCAN computes from the embedding rows)
Near ==
  {p \in DocIds \X DocIds :
     /\ ~CosineRaises(Embedding(p[1]), Embedding(p[2]))
     /\ WithinEps(Embedding(p[1]).vec, Embedding(p[2]).vec)}

----------------------------------------------------------------------------
(* sklearn.cluster.DBSCAN.fit_predict on the rows E (the embeddings of a   *)
(* sequence of documents): labels 0, 1, ... in order of discovery, -1 for  *)
(* noise.                                                                  *)

Neighborhood(E, i) == {j \in DOMAIN E : <<E[i], E[j]>> \in Near}

IsCore(E, i, min_samples) == Cardinality(Neighborhood(E, i)) >= min_samples

\* (mutant) an expansion that labels the seed's neighbours and stops there
ExpandOneHop(E, min_samples, labels, stack, i, num) ==
  [j \in DOMAIN labels |->
     IF labels[j] = -1 /\ j \in Neighborhood(E, i) \cup {i} THEN num ELSE labels[j]]

\* the depth-first expansion of one cluster from the core point i: a point
\* takes the label when it is first popped; only a core point pushes its
\* still unlabelled neighbours (in index order)
RECURSIVE Expand(_, _, _, _, _, _)
Expand(E, min_samples, labels, stack, i, num) ==
  LET fresh == labels[i] = -1
      labels1 == IF fresh THEN [labels EXCEPT ![i] = num] ELSE labels
      stack1 == IF fresh /\ IsCore(E, i, min_samples)
                THEN stack \o Ascending({j \in Neighborhood(E, i) : labels1[j] = -1})
                ELSE stack
  IN IF stack1 = <<>> THEN labels1
     ELSE Expand(E, min_samples, labels1, Front(stack1), Last(stack1), num)

RECURSIVE DbscanFrom(_, _, _, _, _)
DbscanFrom(E, min_samples, labels, i, num) ==
  IF i > Len(E) THEN labels
  ELSE IF labels[i] # -1 \/ ~IsCore(E, i, min_samples)
       THEN DbscanFrom(E, min_samples, labels, i + 1, num)
       ELSE DbscanFrom(E, min_samples, Expand(E, min_samples, labels, <<>>, i, num),
                       i + 1, num + 1)

DBSCAN(E, min_samples) == DbscanFrom(E, min_samples, [i \in DOMAIN E |-> -1], 1, 0)

----------------------------------------------------------------------------
(* StorageService. *)

\* (mutant) the update without its filter on _id: every document is set
update_cluster_id_unfiltered(st, datapoint_id, cluster_id) ==
  [d \in DOMAIN st |-> [cluster_id |-> cluster_id, clustered |-> TRUE]]

\* update_cluster_id: update_one({"_id": id}, {"$set": {cluster_id, clustered}});
\* a filter that matches no document changes nothing
update_cluster_id(st, datapoint_id, cluster_id) ==
  IF datapoint_id \in DOMAIN st
  THEN [st EXCEPT ![datapoint_id] = [cluster_id |-> cluster_id, clustered |-> TRUE]]
  ELSE st

\* the store after the update_cluster_id requests ws, applied in order
RECURSIVE ApplyWrites(_, _)
ApplyWrites(st, ws) ==
  IF ws = <<>> THEN st
  ELSE ApplyWrites(update_cluster_id(st, ws[1][1], ws[1][2]), Tail(ws))

\* get_datapoint: find_one({"_id": id}), None for an unknown id
get_datapoint(st, datapoint_id) ==
  IF datapoint_id \in DOMAIN st THEN <<datapoint_id>> ELSE <<>>

\* the ids of S by published_at, newest first
RECURSIVE NewestFirst(_)
NewestFirst(S) ==
  IF S = {} THEN <<>>
  ELSE LET d == CHOOSE x \in S : \A y \in S : Corpus[y].published_at <= Corpus[x].published_at
       IN <<d>> \o NewestFirst(S \ {d})

\* get_recent_datapoints(hours): published_at >= now - hours, sorted descending
get_recent_datapoints(st, hours) ==
  NewestFirst({d \in DOMAIN st : Corpus[d].published_at >= Now - hours})

\* get_datapoints_by_cluster: find({"cluster_id": cluster_id})
get_datapoints_by_cluster(st, cluster_id) ==
  Ascending({d \in DOMAIN st : st[d].cluster_id = cluster_id})

----------------------------------------------------------------------------
(* ClusteringService.cluster_datapoints. *)

\* `datapoint["embedding"]` is truthy: a non-empty list or another non-empty value
Truthy(e) == e.kind = "nonlist" \/ (e.kind = "list" /\ Len(e.vec) > 0)

\* dp.get("embedding") / `"embedding" in dp and dp["embedding"]`
HasEmbedding(d) == Embedding(d).kind # "absent" /\ Truthy(Embedding(d))

\* (mutant) the extraction loop without its isinstance(embedding, list) guard
ValidEmbeddingAnyType(d) == Embedding(d).kind # "absent" /\ Truthy(Embedding(d))

\* the two `continue` guards of the extraction loop
ValidEmbedding(d) ==
  /\ ~(Embedding(d).kind = "absent" \/ ~Truthy(Embedding(d)))
  /\ ~(Embedding(d).kind # "list" \/ Len(Embedding(d).vec) = 0)

\* (mutant) a grouping loop that writes the label before it tests for noise
RECURSIVE GroupFromWriteFirst(_, _, _, _, _)
GroupFromWriteFirst(valid, labels, idx, cl, ws) ==
  IF idx > Len(valid) THEN [raised |-> FALSE, clusters |-> cl, writes |-> ws]
  ELSE LET cid == ClusterId(labels[idx])
           ws1 == Append(ws, <<valid[idx], cid>>)
           cl1 == IF cid \in DOMAIN cl
                  THEN [cl EXCEPT ![cid] = Append(@, valid[idx])]
                  ELSE [c \in DOMAIN cl \cup {cid} |->
                          IF c = cid THEN <<valid[idx]>> ELSE cl[c]]
       IN IF labels[idx] = -1 THEN GroupFromWriteFirst(valid, labels, idx + 1, cl, ws1)
          ELSE GroupFromWriteFirst(valid, labels, idx + 1, cl1, ws1)

\* the grouping loop over cluster_labels: a noise point is skipped, every
\* other point is appended to its cluster and written to the store
RECURSIVE GroupFrom(_, _, _, _, _)
GroupFrom(valid, labels, idx, cl, ws) ==
  IF idx > Len(valid) THEN [raised |-> FALSE, clusters |-> cl, writes |-> ws]
  ELSE IF labels[idx] = -1 THEN GroupFrom(valid, labels, idx + 1, cl, ws)
  ELSE LET cid == ClusterId(labels[idx])
           cl1 == IF cid \in DOMAIN cl
                  THEN [cl EXCEPT ![cid] = Append(@, valid[idx])]
                  ELSE [c \in DOMAIN cl \cup {cid} |->
                          IF c = cid THEN <<valid[idx]>> ELSE cl[c]]
       IN GroupFrom(valid, labels, idx + 1, cl1, Append(ws, <<valid[idx], cid>>))

Empty == [raised |-> FALSE, clusters |-> <<>>, writes |-> <<>>]

\* (mutant) an empty mapping returned where the call should fail
ReturnEmpty(ws) == [raised |-> FALSE, clusters |-> <<>>, writes |-> ws]

Raise(ws) == [raised |-> TRUE, clusters |-> <<>>, writes |-> ws]

cluster_datapoints(datapoints, min_cluster_size) ==
  LET valid == SelectSeq(datapoints, ValidEmbedding)
      min_samples == IF min_cluster_size # None THEN min_cluster_size ELSE DefaultMinSamples
  IN IF datapoints = <<>> THEN Empty
     ELSE IF Len(valid) < 2 THEN Empty
     \* np.array / DBSCAN reject rows of different lengths (ValueError)
     ELSE IF \E i, j \in DOMAIN valid :
               Len(Embedding(valid[i]).vec) # Len(Embedding(valid[j]).vec)
          THEN Raise(<<>>)
     ELSE GroupFrom(valid, DBSCAN(valid, min_samples), 1, <<>>, <<>>)

----------------------------------------------------------------------------
(* ClusteringService.cluster_datapoints_simple. *)

\* (mutant) an inner loop that attaches j without recording it in used_indices
RECURSIVE AttachUnrecorded(_, _, _, _, _)
AttachUnrecorded(datapoints, pct, i, j, acc) ==
  IF j > Len(datapoints) THEN acc
  ELSE IF j \in acc.used \/ ~HasEmbedding(datapoints[j])
       THEN AttachUnrecorded(datapoints, pct, i, j + 1, acc)
  ELSE IF CosineRaises(Embedding(datapoints[i]), Embedding(datapoints[j]))
       THEN [acc EXCEPT !.raised = TRUE]
  ELSE IF SimilarityAtLeast(Embedding(datapoints[i]).vec, Embedding(datapoints[j]).vec, pct)
       THEN AttachUnrecorded(datapoints, pct, i, j + 1,
                             [acc EXCEPT !.cluster = Append(@, datapoints[j])])
  ELSE AttachUnrecorded(datapoints, pct, i, j + 1, acc)

\* the inner loop: the later datapoints j, compared with the seed i
RECURSIVE Attach(_, _, _, _, _)
Attach(datapoints, pct, i, j, acc) ==
  IF j > Len(datapoints) THEN acc
  ELSE IF j \in acc.used \/ ~HasEmbedding(datapoints[j])
       THEN Attach(datapoints, pct, i, j + 1, acc)
  ELSE IF CosineRaises(Embedding(datapoints[i]), Embedding(datapoints[j]))
       THEN [acc EXCEPT !.raised = TRUE]
  ELSE IF SimilarityAtLeast(Embedding(datapoints[i]).vec, Embedding(datapoints[j]).vec, pct)
       THEN Attach(datapoints, pct, i, j + 1,
                   [acc EXCEPT !.cluster = Append(@, datapoints[j]), !.used = @ \cup {j}])
  ELSE Attach(datapoints, pct, i, j + 1, acc)

\* the writes of one kept cluster
ClusterWrites(members, cid) == [k \in DOMAIN members |-> <<members[k], cid>>]

\* the outer loop over the seeds i
RECURSIVE SimpleFrom(_, _, _, _, _)
SimpleFrom(datapoints, pct, min_cluster_size, i, s) ==
  IF i > Len(datapoints)
    THEN [raised |-> FALSE, clusters |-> s.clusters, writes |-> s.writes]
  ELSE IF i \in s.used \/ ~HasEmbedding(datapoints[i])
    THEN SimpleFrom(datapoints, pct, min_cluster_size, i + 1, s)
  ELSE LET cid == ClusterId(s.counter)
           got == Attach(datapoints, pct, i, i + 1,
                         [raised |-> FALSE, cluster |-> <<datapoints[i]>>,
                          used |-> s.used \cup {i}])
       IN IF got.raised THEN Raise(s.writes)
          ELSE IF Len(got.cluster) >= min_cluster_size
          THEN SimpleFrom(datapoints, pct, min_cluster_size, i + 1,
                 [clusters |-> [c \in DOMAIN s.clusters \cup {cid} |->
                                  IF c = cid THEN got.cluster ELSE s.clusters[c]],
                  used |-> got.used,
                  counter |-> s.counter + 1,
                  writes |-> s.writes \o ClusterWrites(got.cluster, cid)])
          ELSE SimpleFrom(datapoints, pct, min_cluster_size, i + 1,
                 [s EXCEPT !.used = got.used])

cluster_datapoints_simple(datapoints, pct, min_cluster_size) ==
  SimpleFrom(datapoints, pct, min_cluster_size, 1,
             [clusters |-> <<>>, used |-> {}, counter |-> 0, writes |-> <<>>])

----------------------------------------------------------------------------
(* One clustering call as a step of the system: the call's return value    *)
(* and its store updates.                                                  *)

Members(cl) == UNION {Range(cl[c]) : c \in DOMAIN cl}

Written(ws) == {ws[k][1] : k \in DOMAIN ws}

\* the datapoints of the list that the algorithm labelled (cluster or noise)
Labelled(use_dbscan, datapoints, res) ==
  IF res.raised THEN {}
  ELSE IF use_dbscan
  THEN IF Len(SelectSeq(datapoints, ValidEmbedding)) < 2 THEN {}
       ELSE {d \in Range(datapoints) : ValidEmbedding(d)}
  ELSE {d \in Range(datapoints) : HasEmbedding(d)}

\* what the run leaves behind: the store after its update_cluster_id
\* requests, and for every datapoint the outcome of the latest run that
\* labelled it
Effect(use_dbscan, datapoints, res) ==
  /\ store' = ApplyWrites(store, res.writes)
  /\ lastOutcome' =
       [d \in DocIds |->
          IF d \in Written(res.writes) THEN "member"
          ELSE IF d \in Labelled(use_dbscan, datapoints, res) THEN "noise"
          ELSE lastOutcome[d]]

\* the same, with the call and what it returned put on record
Run(c, datapoints, res) ==
  /\ call' = c
  /\ input' = datapoints
  /\ clusters' = res.clusters
  /\ writes' = res.writes
  /\ raised' = res.raised
  /\ Effect(c.use_dbscan, datapoints, res)

NoCall ==
  [op |-> "none", use_dbscan |-> TRUE, min_cluster_size |-> None, include_context |-> FALSE]

\* no concurrent runs
NoRuns == <<>>

\* two cluster_datapoints calls that have their labels and are to enter the
\* grouping loop: the store they started on, the update_cluster_id requests
\* each will make, in its order, and the number each has made
Concurrent(st, ws1, ws2) == [before |-> st, issued |-> <<ws1, ws2>>, made |-> <<0, 0>>]

\* one pass of the grouping loop of run r that reaches update_cluster_id:
\* one update_one, which the collection applies to the document as a whole
GroupingLoopWrite(r) ==
  /\ runs # NoRuns
  /\ runs.made[r] < Len(runs.issued[r])
  /\ LET w == runs.issued[r][runs.made[r] + 1]
     IN /\ store' = update_cluster_id(store, w[1], w[2])
        /\ lastOutcome' = [lastOutcome EXCEPT ![w[1]] = "member"]
  /\ runs' = [runs EXCEPT !.made[r] = @ + 1]
  /\ UNCHANGED <<input, call, clusters, writes, raised, cluster, analysis, batch, again, timeline,
                 details>>

\* the get_datapoints_by_cluster calls of one analyze_cluster call, in the
\* order the code makes them: analyze_cluster itself, then
\* detect_rapid_growth, analyze_source_credibility, detect_contradictions
\* and track_narrative_evolution
Readers == <<"analyze_cluster", "detect_rapid_growth", "analyze_source_credibility",
             "detect_contradictions", "track_narrative_evolution">>

\* no analyze_cluster call under way
NoReads == [cluster_id |-> NoCluster, got |-> <<>>]

\* the list the function that reads next fetches from the collection
AnalyzerRead(st, rd) == get_datapoints_by_cluster(st, rd.cluster_id)

\* the next step of the analyze_cluster call that reaches the collection:
\* the function fetches the cluster's datapoints for itself; analyze_cluster
\* returns the error record without calling an analyzer when its own list
\* is empty
AnalyzeClusterRead ==
  /\ reads # NoReads
  /\ Len(reads.got) < Len(Readers)
  /\ reads.got # <<>> => reads.got[1] # <<>>
  /\ reads' = [reads EXCEPT !.got = Append(@, AnalyzerRead(store, reads))]
  /\ UNCHANGED <<store, input, call, clusters, writes, raised, lastOutcome, cluster, analysis,
                 batch, again, timeline, runs, sources, articles, windows>>

\* the dispatch shared by cluster_datapoints_by_ids and cluster_recent_datapoints
Dispatch(datapoints, min_cluster_size, use_dbscan) ==
  IF use_dbscan THEN cluster_datapoints(datapoints, min_cluster_size)
  ELSE cluster_datapoints_simple(datapoints, SimpleThresholdPct,
         IF min_cluster_size # None THEN min_cluster_size ELSE FallbackMinSize)

\* the ids a caller asks for: those of the stored documents and one id the
\* store does not know
RequestableIds == StoredIds \cup {Min(DocIds \ StoredIds)}

\* the overrides a caller passes
Overrides == {None} \cup (1..MaxMinPts)

\* the look-back windows a caller passes (168 is the default)
RecentHours == {3, 168}

ContextHours == 168

RECURSIVE FlattenSeq(_)
FlattenSeq(ss) == IF ss = <<>> THEN <<>> ELSE ss[1] \o FlattenSeq(Tail(ss))

\* the datapoints handed to the algorithm by cluster_datapoints_by_ids
ByIdsDatapoints(st, datapoint_ids, include_context) ==
  LET found == FlattenSeq([k \in DOMAIN datapoint_ids |-> get_datapoint(st, datapoint_ids[k])])
      target_datapoints == SelectSeq(found, HasEmbedding)
      target_ids == Range(target_datapoints)
      NotTarget(d) == d \notin target_ids
      context_datapoints ==
        SelectSeq(SelectSeq(get_recent_datapoints(st, ContextHours), HasEmbedding), NotTarget)
  IN IF target_datapoints = <<>> THEN <<>>
     ELSE IF include_context THEN target_datapoints \o context_datapoints
     ELSE target_datapoints

\* the datapoints handed to the algorithm by cluster_recent_datapoints
RecentDatapoints(st, hours, force_recluster) ==
  LET recent == get_recent_datapoints(st, hours)
      Unclustered(d) == ~st[d].clustered
  IN IF force_recluster THEN recent ELSE SelectSeq(recent, Unclustered)

cluster_datapoints_by_ids(datapoint_ids, min_cluster_size, use_dbscan, include_context) ==
  LET all_datapoints == ByIdsDatapoints(store, datapoint_ids, include_context)
  IN /\ Effect(use_dbscan, all_datapoints,
               IF all_datapoints = <<>> THEN Empty
               ELSE Dispatch(all_datapoints, min_cluster_size, use_dbscan))
     /\ UNCHANGED <<input, call, clusters, writes, raised, cluster, analysis, others>>

cluster_recent_datapoints(hours, min_cluster_size, use_dbscan, force_recluster) ==
  LET unclustered == RecentDatapoints(store, hours, force_recluster)
  IN /\ Effect(use_dbscan, unclustered,
               IF unclustered = <<>> THEN Empty
               ELSE Dispatch(unclustered, min_cluster_size, use_dbscan))
     /\ UNCHANGED <<input, call, clusters, writes, raised, cluster, analysis, others>>

\* a call of cluster_datapoints_by_ids on the id list `input`, with what it
\* returned put on record
CallClusterDatapointsByIds ==
  /\ call.op = "none"
  /\ \E min_cluster_size \in Overrides, use_dbscan \in BOOLEAN, include_context \in BOOLEAN :
       LET all_datapoints == ByIdsDatapoints(store, input, include_context)
           res == IF all_datapoints = <<>> THEN Empty
                  ELSE Dispatch(all_datapoints, min_cluster_size, use_dbscan)
       IN /\ call' = [op |-> "cluster_datapoints_by_ids", use_dbscan |-> use_dbscan,
                      min_cluster_size |-> min_cluster_size,
                      include_context |-> include_context]
          /\ clusters' = res.clusters
          /\ writes' = res.writes
          /\ raised' = res.raised
          /\ Effect(use_dbscan, all_datapoints, res)
  /\ UNCHANGED <<input, cluster, analysis, others>>

ClusterByIds ==
  \E datapoint_ids \in SeqsUpTo(RequestableIds, MaxIds), min_cluster_size \in Overrides,
     use_dbscan \in BOOLEAN, include_context \in BOOLEAN :
    cluster_datapoints_by_ids(datapoint_ids, min_cluster_size, use_dbscan, include_context)

ClusterRecent ==
  \E hours \in RecentHours, min_cluster_size \in Overrides,
     use_dbscan \in BOOLEAN, force_recluster \in BOOLEAN :
    cluster_recent_datapoints(hours, min_cluster_size, use_dbscan, force_recluster)

\* a direct call of cluster_datapoints on the list `input`
CallClusterDatapoints ==
  /\ call.op = "none"
  /\ \E min_cluster_size \in Overrides :
       Run([NoCall EXCEPT !.op = "cluster_datapoints",
                          !.min_cluster_size = min_cluster_size],
           input, cluster_datapoints(input, min_cluster_size))
  /\ UNCHANGED <<cluster, analysis, others>>

\* a direct call of cluster_datapoints_simple on the list `input`
CallClusterDatapointsSimple ==
  /\ call.op = "none"
  /\ \E min_cluster_size \in 1..MaxMinPts :
       Run([NoCall EXCEPT !.op = "cluster_datapoints_simple", !.use_dbscan = FALSE,
                          !.min_cluster_size = min_cluster_size],
           input, cluster_datapoints_simple(input, SimpleThresholdPct, min_cluster_size))
  /\ UNCHANGED <<cluster, analysis, others>>

----------------------------------------------------------------------------
(* Scores. Until it is rounded a score is an exact fraction num/den with   *)
(* den > 0; a rounded score is an integer number of thousandths.           *)

RECURSIVE GCD(_, _)
GCD(a, b) == IF b = 0 THEN a ELSE GCD(b, a % b)

Abs(x) == IF x < 0 THEN -x ELSE x

Frac(n, d) == LET g == GCD(Abs(n), d) IN [num |-> n \div g, den |-> d \div g]

Zero == Frac(0, 1)

One == Frac(1, 1)

FracAdd(a, b) == Frac(a.num * b.den + b.num * a.den, a.den * b.den)

FracSub(a, b) == Frac(a.num * b.den - b.num * a.den, a.den * b.den)

FracMul(a, b) == Frac(a.num * b.num, a.den * b.den)

\* a / b, for b > 0
FracDiv(a, b) == Frac(a.num * b.den, a.den * b.num)

FracLess(a, b) == a.num * b.den < b.num * a.den

FracMin(a, b) == IF FracLess(b, a) THEN b ELSE a

FracMax(a, b) == IF FracLess(a, b) THEN b ELSE a

\* round(x, 3) for x >= 0, in thousandths. The float x carries a binary
\* rounding error, so a value exactly halfway between two thousandths is
\* rounded to either of them
Round3(x) ==
  LET q == (1000 * x.num) \div x.den
      r == (1000 * x.num) % x.den
  IN IF 2 * r < x.den THEN {q} ELSE IF 2 * r > x.den THEN {q + 1} ELSE {q, q + 1}

\* round(x, 2) for x >= 0, in hundredths
Round2(x) ==
  LET q == (100 * x.num) \div x.den
      r == (100 * x.num) % x.den
  IN IF 2 * r < x.den THEN {q} ELSE IF 2 * r > x.den THEN {q + 1} ELSE {q, q + 1}

\* dict.get(key, default)
Get(r, key, default) == IF key \in DOMAIN r THEN r[key] ELSE default

----------------------------------------------------------------------------
(* The four analyzers of PatternDetectionService. `cl` is what an analyzer *)
(* finds out about the datapoints stored under the cluster id: their       *)
(* number and the counts its own loops arrive at.                          *)

\* rapid_growth_window_hours = 6, also the window_hours of _create_time_windows
WindowHours == 6
\* min_credible_source_ratio = 0.3, in thousandths
MinCredibleSourceRatio == 300

\* a reported growth_rate: float('inf'), or a number of hundredths
Infinite == [infinite |-> TRUE, hundredths |-> 0]

Rate(hundredths) == [infinite |-> FALSE, hundredths |-> hundredths]

detect_rapid_growth(cl) ==
  IF cl.datapoint_count < 2
  THEN {[is_rapid_growth |-> FALSE, growth_rate |-> Rate(0), current_size |-> cl.datapoint_count,
         previous_size |-> 0, risk_score |-> 0,
         reason |-> "Insufficient datapoints for growth analysis"]}
  ELSE IF cl.timestamps < 2
  THEN {[is_rapid_growth |-> FALSE, growth_rate |-> Rate(0), current_size |-> cl.datapoint_count,
         previous_size |-> 0, risk_score |-> 0,
         reason |-> "Insufficient valid timestamps"]}
  ELSE LET current_size == cl.current_size
           previous_size == cl.previous_size
           \* growth_rate = float('inf')
           infinite == previous_size = 0 /\ current_size > 0
           growth_rate == IF previous_size = 0 THEN Zero
                          ELSE Frac(current_size, previous_size)
           time_span_hours == IF cl.time_span_hours < 1 THEN 1 ELSE cl.time_span_hours
           datapoints_per_hour == Frac(cl.timestamps, time_span_hours)
           is_rapid_growth ==
             /\ infinite \/ ~FracLess(growth_rate, Frac(10, 1))
             /\ current_size >= 10
           growth_component ==
             IF infinite THEN FracMul(One, Frac(1, 10))
             ELSE IF FracLess(Frac(15, 1), growth_rate)
             THEN FracMul(FracMin(One, FracDiv(FracSub(growth_rate, Frac(15, 1)),
                                               Frac(20, 1))),
                          Frac(1, 10))
             ELSE Zero
           velocity_component ==
             IF FracLess(Frac(20, 1), datapoints_per_hour)
             THEN FracMul(FracMin(One, FracDiv(FracSub(datapoints_per_hour, Frac(20, 1)),
                                               Frac(30, 1))),
                          Frac(5, 100))
             ELSE Zero
           risk_score == FracMin(Frac(2, 10), FracAdd(growth_component, velocity_component))
       IN {[is_rapid_growth |-> is_rapid_growth, growth_rate |-> g,
            current_size |-> current_size, previous_size |-> previous_size, risk_score |-> r] :
             g \in IF infinite THEN {Infinite} ELSE {Rate(x) : x \in Round2(growth_rate)},
             r \in Round3(risk_score)}

analyze_source_credibility(cl) ==
  IF cl.datapoint_count = 0
  THEN {[credible_ratio |-> 0, risk_score |-> 1000, reason |-> "No datapoints in cluster"]}
  ELSE LET total_sources == cl.datapoint_count
           credible_ratio == Frac(cl.credible_count, total_sources)
           base_risk == FracMul(FracSub(One, credible_ratio), Frac(4, 10))
           questionable_risk ==
             FracMul(FracMin(Frac(cl.questionable_count, total_sources), One), Frac(3, 10))
           with_fact_checkers == IF cl.fact_checkers_present THEN Frac(-2, 10) ELSE Zero
           credibility_bonus ==
             IF ~FracLess(credible_ratio, Frac(5, 10))
             THEN FracMax(with_fact_checkers, Frac(-15, 100))
             ELSE with_fact_checkers
           risk_score ==
             FracMax(Zero, FracMin(One, FracAdd(FracAdd(base_risk, questionable_risk),
                                                credibility_bonus)))
       IN {[credible_ratio |-> ratio, credible_count |-> cl.credible_count,
            questionable_count |-> cl.questionable_count, total_sources |-> total_sources,
            fact_checkers_present |-> cl.fact_checkers_present, risk_score |-> r] :
             ratio \in Round3(credible_ratio), r \in Round3(risk_score)}

----------------------------------------------------------------------------
(* Source names. A string is a sequence of characters.                     *)

UpperCase ==
  <<"A", "B", "C", "D", "E", "F", "G", "H", "I", "J", "K", "L", "M",
    "N", "O", "P", "Q", "R", "S", "T", "U", "V", "W", "X", "Y", "Z">>

LowerCase ==
  <<"a", "b", "c", "d", "e", "f", "g", "h", "i", "j", "k", "l", "m",
    "n", "o", "p", "q", "r", "s", "t", "u", "v", "w", "x", "y", "z">>

\* str.lower()
lower(s) ==
  [i \in DOMAIN s |->
     IF \E k \in DOMAIN UpperCase : UpperCase[k] = s[i]
     THEN LowerCase[CHOOSE k \in DOMAIN UpperCase : UpperCase[k] = s[i]]
     ELSE s[i]]

\* `t in s` of two strings
In(t, s) == \E i \in 0..(Len(s) - Len(t)) : SubSeq(s, i + 1, i + Len(t)) = t

\* the table CREDIBLE_SOURCES in the order of its keys, scores in hundredths
CREDIBLE_SOURCES ==
  <<[known_source |-> <<"B", "B", "C", " ", "N", "e", "w", "s">>,
     credibility |-> 95],
    [known_source |-> <<"R", "e", "u", "t", "e", "r", "s">>,
     credibility |-> 95],
    [known_source |-> <<"R", "e", "u", "t", "e", "r", "s", " ", "H", "e", "a", "l", "t", "h">>,
     credibility |-> 95],
    [known_source |-> <<"A", "P", " ", "N", "e", "w", "s">>,
     credibility |-> 95],
    [known_source |-> <<"A", "s", "s", "o", "c", "i", "a", "t", "e", "d", " ", "P", "r", "e", "s", "s">>,
     credibility |-> 95],
    [known_source |-> <<"C", "N", "N">>,
     credibility |-> 90],
    [known_source |-> <<"T", "h", "e", " ", "G", "u", "a", "r", "d", "i", "a", "n">>,
     credibility |-> 90],
    [known_source |-> <<"T", "h", "e", " ", "N", "e", "w", " ", "Y", "o", "r", "k", " ", "T", "i", "m", "e", "s">>,
     credibility |-> 90],
    [known_source |-> <<"T", "h", "e", " ", "W", "a", "s", "h", "i", "n", "g", "t", "o", "n", " ", "P", "o", "s", "t">>,
     credibility |-> 90],
    [known_source |-> <<"W", "a", "l", "l", " ", "S", "t", "r", "e", "e", "t", " ", "J", "o", "u", "r", "n", "a", "l">>,
     credibility |-> 90],
    [known_source |-> <<"N", "P", "R">>,
     credibility |-> 90],
    [known_source |-> <<"P", "B", "S">>,
     credibility |-> 90],
    [known_source |-> <<"B", "B", "C">>,
     credibility |-> 95],
    [known_source |-> <<"F", "i", "r", "s", "t", "p", "o", "s", "t">>,
     credibility |-> 70],
    [known_source |-> <<"I", "n", "d", "i", "a", " ", "T", "o", "d", "a", "y">>,
     credibility |-> 75],
    [known_source |-> <<"T", "h", "e", " ", "H", "i", "n", "d", "u">>,
     credibility |-> 80],
    [known_source |-> <<"T", "h", "e", " ", "T", "i", "m", "e", "s", " ", "o", "f", " ", "I", "n", "d", "i", "a">>,
     credibility |-> 75],
    [known_source |-> <<"H", "i", "n", "d", "u", "s", "t", "a", "n", " ", "T", "i", "m", "e", "s">>,
     credibility |-> 75],
    [known_source |-> <<"T", "a", "v", "i", "l", "y", " ", "S", "e", "a", "r", "c", "h">>,
     credibility |-> 50],
    [known_source |-> <<"S", "o", "c", "i", "a", "l", " ", "M", "e", "d", "i", "a">>,
     credibility |-> 30],
    [known_source |-> <<"B", "l", "o", "g">>,
     credibility |-> 40],
    [known_source |-> <<"U", "n", "k", "n", "o", "w", "n">>,
     credibility |-> 30]>>

FACT_CHECK_SOURCES ==
  {<<"F", "a", "c", "t", " ", "C", "h", "e", "c", "k", " ", "O", "r", "g", "a", "n", "i", "z", "a", "t", "i", "o", "n">>,
   <<"S", "n", "o", "p", "e", "s">>,
   <<"P", "o", "l", "i", "t", "i", "F", "a", "c", "t">>,
   <<"F", "a", "c", "t", "C", "h", "e", "c", "k", ".", "o", "r", "g">>,
   <<"A", "F", "P", " ", "F", "a", "c", "t", " ", "C", "h", "e", "c", "k">>,
   <<"R", "e", "u", "t", "e", "r", "s", " ", "F", "a", "c", "t", " ", "C", "h", "e", "c", "k">>}

\* _get_source_credibility: the exact key, else the first key of the table
\* that holds the name or is held by it (lower case), else 0.95 for a name
\* that holds the name of a fact-checker, else 0.50
get_source_credibility(source_name) ==
  LET exact == {k \in DOMAIN CREDIBLE_SOURCES :
                  CREDIBLE_SOURCES[k].known_source = source_name}
      source_lower == lower(source_name)
      partial == {k \in DOMAIN CREDIBLE_SOURCES :
                    \/ In(lower(CREDIBLE_SOURCES[k].known_source), source_lower)
                    \/ In(source_lower, lower(CREDIBLE_SOURCES[k].known_source))}
  IN IF exact # {} THEN CREDIBLE_SOURCES[Min(exact)].credibility
     ELSE IF partial # {} THEN CREDIBLE_SOURCES[Min(partial)].credibility
     ELSE IF \E fc \in FACT_CHECK_SOURCES : In(lower(fc), source_lower) THEN 95
     ELSE 50

\* the counting loop of analyze_source_credibility over the source_name of
\* the datapoints, and its test for fact-checkers
SourceCounts(names) ==
  [datapoint_count |-> Len(names),
   credible_count |->
     Cardinality({i \in DOMAIN names : get_source_credibility(names[i]) >= 70}),
   questionable_count |->
     Cardinality({i \in DOMAIN names : get_source_credibility(names[i]) < 50}),
   fact_checkers_present |-> \E i \in DOMAIN names : names[i] \in FACT_CHECK_SOURCES]

\* the source names met in clusters: keys of the table, keys in another
\* case or inside a longer name, fact-checkers, a name the tables do not
\* know and the empty name
SourceNames ==
  {<<"B", "B", "C">>,
   <<"b", "b", "c">>,
   <<"R", "e", "u", "t", "e", "r", "s", " ", "I", "n", "d", "i", "a">>,
   <<"B", "l", "o", "g">>,
   <<"M", "y", " ", "B", "l", "o", "g">>,
   <<"U", "n", "k", "n", "o", "w", "n">>,
   <<"S", "n", "o", "p", "e", "s">>,
   <<"D", "a", "i", "l", "y", " ", "P", "l", "a", "n", "e", "t">>,
   <<>>,
   <<"F", "i", "r", "s", "t", "p", "o", "s", "t">>,
   <<"T", "a", "v", "i", "l", "y", " ", "S", "e", "a", "r", "c", "h">>,
   <<"T", "h", "e", " ", "H", "i", "n", "d", "u">>}

NoReport == <<>>

NoSources == [names |-> <<>>, credibility |-> <<>>, report |-> NoReport]

\* analyze_source_credibility on the cluster whose datapoints carry the
\* source names sources.names
AnalyzeSourceCredibility ==
  /\ sources.report = NoReport
  /\ \E report \in analyze_source_credibility(SourceCounts(sources.names)) :
       sources' = [sources EXCEPT
                     !.credibility = [i \in DOMAIN sources.names |->
                                        get_source_credibility(sources.names[i])],
                     !.report = report]
  /\ UNCHANGED <<store, input, call, clusters, writes, raised, lastOutcome, cluster, analysis,
                 batch, again, timeline, runs, articles, windows, reads>>

\* (mutant) a contradiction ratio of datapoints per pair
detect_contradictions_per_pair(cl) ==
  IF cl.datapoint_count < 2
  THEN {[has_contradictions |-> FALSE, contradiction_count |-> 0, risk_score |-> 0,
         reason |-> "Insufficient datapoints for contradiction analysis"]}
  ELSE LET unique_pairs == cl.unique_pairs
           contradiction_ratio == Frac(cl.datapoint_count, unique_pairs)
           risk_score ==
             IF unique_pairs = 0 THEN Zero
             ELSE IF FracLess(Frac(2, 10), contradiction_ratio)
             THEN FracMin(One, FracDiv(FracSub(contradiction_ratio, Frac(2, 10)), Frac(8, 10)))
             ELSE FracMul(contradiction_ratio, Frac(5, 10))
       IN {[has_contradictions |-> unique_pairs > 0, contradiction_count |-> unique_pairs,
            total_datapoints |-> cl.datapoint_count, risk_score |-> r] :
             r \in Round3(risk_score)}

\* (mutant) a contradiction risk without the cap at 1.0
detect_contradictions_uncapped(cl) ==
  IF cl.datapoint_count < 2
  THEN {[has_contradictions |-> FALSE, contradiction_count |-> 0, risk_score |-> 0,
         reason |-> "Insufficient datapoints for contradiction analysis"]}
  ELSE LET unique_pairs == cl.unique_pairs
           contradiction_ratio == Frac(unique_pairs, cl.datapoint_count)
           risk_score ==
             IF unique_pairs = 0 THEN Zero
             ELSE IF FracLess(Frac(2, 10), contradiction_ratio)
             THEN FracDiv(FracSub(contradiction_ratio, Frac(2, 10)), Frac(8, 10))
             ELSE FracMul(contradiction_ratio, Frac(5, 10))
       IN {[has_contradictions |-> unique_pairs > 0, contradiction_count |-> unique_pairs,
            total_datapoints |-> cl.datapoint_count, risk_score |-> r] :
             r \in Round3(risk_score)}

detect_contradictions(cl) ==
  IF cl.datapoint_count < 2
  THEN {[has_contradictions |-> FALSE, contradiction_count |-> 0, risk_score |-> 0,
         reason |-> "Insufficient datapoints for contradiction analysis"]}
  ELSE LET unique_pairs == cl.unique_pairs
           contradiction_ratio == Frac(unique_pairs, cl.datapoint_count)
           risk_score ==
             IF unique_pairs = 0 THEN Zero
             ELSE IF FracLess(Frac(2, 10), contradiction_ratio)
             THEN FracMin(One, FracDiv(FracSub(contradiction_ratio, Frac(2, 10)), Frac(8, 10)))
             ELSE FracMul(contradiction_ratio, Frac(5, 10))
       IN {[has_contradictions |-> unique_pairs > 0, contradiction_count |-> unique_pairs,
            total_datapoints |-> cl.datapoint_count, risk_score |-> r] :
             r \in Round3(risk_score)}

----------------------------------------------------------------------------
(* The pairs of detect_contradictions. A datapoint is its id, its title    *)
(* and its embedding; its content is empty, so that its claim text is the  *)
(* title followed by ". ".                                                 *)

\* similarity_threshold = 0.7 of detect_contradictions, in hundredths
ContradictionThresholdPct == 70

\* contradiction_patterns of _has_contradiction_keywords
contradiction_patterns ==
  << <<<<"f", "a", "l", "s", "e">>, <<"t", "r", "u", "e">>>>, <<<<"d", "e", "b", "u", "n", "k", "e", "d">>, <<"c", "o", "n", "f", "i", "r", "m", "e", "d">>>>, <<<<"d", "e", "n", "i", "e", "d">>, <<"c", "o", "n", "f", "i", "r", "m", "e", "d">>>>,
     <<<<"n", "o", "t">>, <<"i", "s">>>>, <<<<"n", "o">>, <<"y", "e", "s">>>>, <<<<"u", "n", "f", "o", "u", "n", "d", "e", "d">>, <<"v", "e", "r", "i", "f", "i", "e", "d">>>>,
     <<<<"r", "u", "m", "o", "r">>, <<"f", "a", "c", "t">>>>, <<<<"m", "i", "s", "i", "n", "f", "o", "r", "m", "a", "t", "i", "o", "n">>, <<"v", "e", "r", "i", "f", "i", "e", "d">>>> >>

has_contradiction_keywords(text1, text2) ==
  \E k \in DOMAIN contradiction_patterns :
    LET pattern1 == contradiction_patterns[k][1]
        pattern2 == contradiction_patterns[k][2]
    IN \/ In(pattern1, lower(text1)) /\ In(pattern2, lower(text2))
       \/ In(pattern2, lower(text1)) /\ In(pattern1, lower(text2))

\* contradiction_keywords of the title route
contradiction_keywords ==
  {<<"f", "a", "l", "s", "e">>, <<"d", "e", "b", "u", "n", "k", "e", "d">>, <<"u", "n", "f", "o", "u", "n", "d", "e", "d">>, <<"p", "r", "o", "v", "e", " ", "u", "n", "f", "o", "u", "n", "d", "e", "d">>, <<"r", "u", "m", "o", "r", "s">>, <<"m", "i", "s", "i", "n", "f", "o", "r", "m", "a", "t", "i", "o", "n">>,
   <<"d", "i", "s", "p", "r", "o", "v", "e", "n">>, <<"i", "n", "c", "o", "r", "r", "e", "c", "t">>, <<"w", "r", "o", "n", "g">>, <<"n", "o", "t", " ", "t", "r", "u", "e">>, <<"d", "e", "n", "i", "e", "d">>, <<"r", "e", "j", "e", "c", "t", "e", "d">>}

stop_words ==
  {<<"t", "h", "e">>, <<"a">>, <<"a", "n">>, <<"a", "n", "d">>, <<"o", "r">>, <<"b", "u", "t">>, <<"i", "n">>, <<"o", "n">>, <<"a", "t">>, <<"t", "o">>, <<"f", "o", "r">>, <<"o", "f">>, <<"w", "i", "t", "h">>, <<"b", "y">>}

\* str.split(): the runs of characters between blanks
RECURSIVE SplitFrom(_, _, _)
SplitFrom(s, i, word) ==
  IF i > Len(s) THEN (IF word = <<>> THEN {} ELSE {word})
  ELSE IF s[i] = " "
  THEN (IF word = <<>> THEN {} ELSE {word}) \cup SplitFrom(s, i + 1, <<>>)
  ELSE SplitFrom(s, i + 1, Append(word, s[i]))

\* the lower-case words of a title that are no stop words
KeyWords(title) == {lower(w) : w \in SplitFrom(title, 1, <<>>)} \ stop_words

\* _topics_similar: more than 30% of the words of both titles are shared
topics_similar(title1, title2) ==
  LET words1 == KeyWords(title1)
      words2 == KeyWords(title2)
  IN /\ words1 # {}
     /\ words2 # {}
     /\ 10 * Cardinality(words1 \cap words2) > 3 * Cardinality(words1 \cup words2)

\* claim_text = f"{title}. {first_sentence[:200]}" of a datapoint without content
ClaimText(dp) == dp.title \o <<".", " ">>

\* the pairs of the embedding route, which is taken when the first claim
\* carries an embedding; a pair is the set of the two ids
EmbeddingPairs(datapoints) ==
  IF ~Truthy(datapoints[1].embedding) THEN {}
  ELSE {{datapoints[i].id, datapoints[j].id} : <<i, j>> \in
          {p \in (DOMAIN datapoints) \X (DOMAIN datapoints) :
             /\ p[1] < p[2]
             /\ Truthy(datapoints[p[1]].embedding)
             /\ Truthy(datapoints[p[2]].embedding)
             /\ SimilarityAtLeast(datapoints[p[1]].embedding.vec,
                                  datapoints[p[2]].embedding.vec, ContradictionThresholdPct)
             /\ has_contradiction_keywords(ClaimText(datapoints[p[1]]),
                                           ClaimText(datapoints[p[2]]))}}

\* the pairs of the title route
TitlePairs(datapoints) ==
  {{datapoints[i].id, datapoints[j].id} : <<i, j>> \in
     {p \in (DOMAIN datapoints) \X (DOMAIN datapoints) :
        /\ \E keyword \in contradiction_keywords :
             In(keyword, lower(datapoints[p[1]].title))
        /\ datapoints[p[2]].id # datapoints[p[1]].id
        /\ topics_similar(datapoints[p[1]].title, datapoints[p[2]].title)}}

\* unique_pairs: one pair for every sorted pair of ids
UniquePairs(datapoints) ==
  IF Len(datapoints) < 2 THEN {}
  ELSE EmbeddingPairs(datapoints) \cup TitlePairs(datapoints)

\* the titles and the embeddings of the datapoints of a cluster
Titles == {<<"y", "e", "s">>, <<"n", "o">>, <<"r", "a", "i", "n">>, <<"r", "a", "i", "n", " ", "f", "a", "l", "s", "e">>}

ClaimEmbeddings ==
  {List(<<1, 1, 1, 1>>), List(<<3, 1, 1, 0>>), List(<<1, 1, 1, -1>>), List(<<>>)}

NoArticles == [datapoints |-> <<>>, pairs |-> {}, report |-> NoReport]

\* detect_contradictions on the cluster whose datapoints the store returns
\* as articles.datapoints
DetectContradictions ==
  /\ articles.report = NoReport
  /\ \E report \in detect_contradictions(
                      [datapoint_count |-> Len(articles.datapoints),
                       unique_pairs |-> Cardinality(UniquePairs(articles.datapoints))]) :
       articles' = [articles EXCEPT !.pairs = UniquePairs(articles.datapoints),
                                  !.report = report]
  /\ UNCHANGED <<store, input, call, clusters, writes, raised, lastOutcome, cluster, analysis,
                 batch, again, timeline, runs, sources, windows, reads>>

----------------------------------------------------------------------------
(* _create_time_windows on a list of (timestamp, datapoint) pairs. A       *)
(* timestamp is a number of hours, a datapoint its place in the list.      *)

\* (mutant) a loop that measures every point from the point before it
RECURSIVE WindowLoopSliding(_, _, _, _, _)
WindowLoopSliding(datapoints_with_time, i, done, current_window, window_start) ==
  IF i > Len(datapoints_with_time)
  THEN (IF current_window # <<>> THEN Append(done, current_window) ELSE done)
  ELSE LET ts == datapoints_with_time[i][1]
       IN IF current_window = <<>>
          THEN WindowLoopSliding(datapoints_with_time, i + 1, done,
                                 <<datapoints_with_time[i]>>, ts)
          ELSE IF ts - window_start <= WindowHours
          THEN WindowLoopSliding(datapoints_with_time, i + 1, done,
                                 Append(current_window, datapoints_with_time[i]), ts)
          ELSE WindowLoopSliding(datapoints_with_time, i + 1, Append(done, current_window),
                                 <<datapoints_with_time[i]>>, ts)

\* the loop over the list: `done` are the windows appended so far; the
\* current window is empty as long as window_start is None
RECURSIVE WindowLoop(_, _, _, _, _)
WindowLoop(datapoints_with_time, i, done, current_window, window_start) ==
  IF i > Len(datapoints_with_time)
  THEN (IF current_window # <<>> THEN Append(done, current_window) ELSE done)
  ELSE LET ts == datapoints_with_time[i][1]
       IN IF current_window = <<>>
          THEN WindowLoop(datapoints_with_time, i + 1, done, <<datapoints_with_time[i]>>, ts)
          ELSE IF ts - window_start <= WindowHours
          THEN WindowLoop(datapoints_with_time, i + 1, done,
                          Append(current_window, datapoints_with_time[i]), window_start)
          ELSE WindowLoop(datapoints_with_time, i + 1, Append(done, current_window),
                          <<datapoints_with_time[i]>>, ts)

TimeWindows(datapoints_with_time) ==
  IF datapoints_with_time = <<>> THEN <<>>
  ELSE WindowLoop(datapoints_with_time, 1, <<>>, <<>>, 0)

\* the hours between one datapoint of a sorted list and the next
Gaps == {0, 1, WindowHours - 1, WindowHours, WindowHours + 1}

\* the sorted list whose consecutive timestamps lie `gaps` apart
RECURSIVE SortedFrom(_, _, _)
SortedFrom(gaps, i, ts) ==
  IF i > Len(gaps) THEN <<>>
  ELSE <<<<ts + gaps[i], i + 1>>>> \o SortedFrom(gaps, i + 1, ts + gaps[i])

SortedList(gaps) == <<<<0, 1>>>> \o SortedFrom(gaps, 1, 0)

NoWindows == [datapoints_with_time |-> <<>>, called |-> FALSE, result |-> <<>>]

\* _create_time_windows(windows.datapoints_with_time, window_hours=6)
CreateTimeWindows ==
  /\ ~windows.called
  /\ windows' = [windows EXCEPT !.called = TRUE,
                                !.result = TimeWindows(windows.datapoints_with_time)]
  /\ UNCHANGED <<store, input, call, clusters, writes, raised, lastOutcome, cluster, analysis,
                 batch, again, timeline, runs, sources, articles, reads>>

\* (mutant) evolution tracking that does not count the timestamps it could read
track_narrative_evolution_unchecked(cl) ==
  IF cl.datapoint_count < 3
  THEN {[has_evolution |-> FALSE, risk_score |-> 0,
         reason |-> "Insufficient datapoints for evolution tracking"]}
  ELSE LET key_changes == cl.key_changes
           has_evolution == key_changes > 0
           change_frequency == Frac(key_changes, IF cl.time_windows < 1 THEN 1 ELSE cl.time_windows)
           risk_score ==
             IF ~has_evolution THEN Zero
             ELSE IF FracLess(Frac(5, 10), change_frequency)
             THEN FracMul(FracMin(One, FracDiv(FracSub(change_frequency, Frac(5, 10)),
                                               Frac(5, 10))),
                          Frac(6, 10))
             ELSE FracMul(change_frequency, Frac(3, 10))
       IN {[has_evolution |-> has_evolution, total_stages |-> cl.time_windows,
            change_count |-> key_changes, risk_score |-> r] : r \in Round3(risk_score)}

track_narrative_evolution(cl) ==
  IF cl.datapoint_count < 3
  THEN {[has_evolution |-> FALSE, risk_score |-> 0,
         reason |-> "Insufficient datapoints for evolution tracking"]}
  ELSE IF cl.timestamps < 3
  THEN {[has_evolution |-> FALSE, risk_score |-> 0,
         reason |-> "Insufficient valid timestamps"]}
  ELSE LET key_changes == cl.key_changes
           has_evolution == key_changes > 0
           change_frequency == Frac(key_changes, cl.time_windows)
           risk_score ==
             IF ~has_evolution THEN Zero
             ELSE IF FracLess(Frac(5, 10), change_frequency)
             THEN FracMul(FracMin(One, FracDiv(FracSub(change_frequency, Frac(5, 10)),
                                               Frac(5, 10))),
                          Frac(6, 10))
             ELSE FracMul(change_frequency, Frac(3, 10))
       IN {[has_evolution |-> has_evolution, total_stages |-> cl.time_windows,
            change_count |-> key_changes, risk_score |-> r] : r \in Round3(risk_score)}

----------------------------------------------------------------------------
(* PatternDetectionService.analyze_cluster. *)

\* (mutant) a weighted sum with the weights of growth and credibility exchanged
WeightedSumSwapped(growth_risk, credibility_risk, contradiction_risk, evolution_risk) ==
  growth_risk * 4 + credibility_risk * 1 + contradiction_risk * 3 + evolution_risk * 2

\* growth_risk * 0.1 + credibility_risk * 0.4 + contradiction_risk * 0.3 +
\* evolution_risk * 0.2 for scores in thousandths: the decimal value of the
\* sum, in ten-thousandths
WeightedSum(growth_risk, credibility_risk, contradiction_risk, evolution_risk) ==
  growth_risk * 1 + credibility_risk * 4 + contradiction_risk * 3 + evolution_risk * 2

\* the values the sum is compared with: 0.6 and 0.35 by analyze_cluster, 0.7
\* and 0.4 by _generate_recommendation
Thresholds == {6000, 3500, 7000, 4000}

\* the float sum lies below (-1), on (0) or above (1) its decimal value; the
\* side is kept where a comparison or the final rounding turns on it
FloatSides(value) ==
  IF value \in Thresholds \/ value % 10 = 5 THEN {-1, 0, 1} ELSE {0}

\* overall_risk_score >= threshold
AtLeast(overall, threshold) ==
  overall.value > threshold \/ (overall.value = threshold /\ overall.side >= 0)

\* (mutant) risk levels with the thresholds of the recommendation, 0.7 and 0.4
RiskLevelFormer(overall) ==
  IF AtLeast(overall, 7000) THEN "high"
  ELSE IF AtLeast(overall, 4000) THEN "medium"
  ELSE "low"

\* (mutant) risk levels with strict comparisons
RiskLevelStrict(overall) ==
  IF overall.value > 6000 \/ (overall.value = 6000 /\ overall.side > 0) THEN "high"
  ELSE IF overall.value > 3500 \/ (overall.value = 3500 /\ overall.side > 0) THEN "medium"
  ELSE "low"

RiskLevel(overall) ==
  IF AtLeast(overall, 6000) THEN "high"
  ELSE IF AtLeast(overall, 3500) THEN "medium"
  ELSE "low"

\* round(overall_risk_score, 3), in thousandths
RoundOverall(overall) ==
  LET q == overall.value \div 10
      r == overall.value % 10
  IN IF r < 5 THEN q
     ELSE IF r > 5 THEN q + 1
     ELSE IF overall.side < 0 THEN q
     ELSE IF overall.side > 0 THEN q + 1
     ELSE IF q % 2 = 0 THEN q ELSE q + 1

\* (mutant) flags that repeat the analyzers' booleans without the count tests
FlagsUncounted(growth_analysis, credibility_analysis, contradiction_analysis, evolution_analysis) ==
  [rapid_growth |-> Get(growth_analysis, "is_rapid_growth", FALSE),
   low_credibility |->
     Get(credibility_analysis, "credible_ratio", 1000) * 10 < MinCredibleSourceRatio * 7,
   has_contradictions |-> Get(contradiction_analysis, "has_contradictions", FALSE),
   narrative_evolution |-> Get(evolution_analysis, "has_evolution", FALSE)]

Flags(growth_analysis, credibility_analysis, contradiction_analysis, evolution_analysis) ==
  [rapid_growth |-> Get(growth_analysis, "is_rapid_growth", FALSE),
   \* credible_ratio < min_credible_source_ratio * 0.7
   low_credibility |->
     Get(credibility_analysis, "credible_ratio", 1000) * 10 < MinCredibleSourceRatio * 7,
   has_contradictions |->
     /\ Get(contradiction_analysis, "has_contradictions", FALSE)
     /\ Get(contradiction_analysis, "contradiction_count", 0) > 2,
   narrative_evolution |->
     /\ Get(evolution_analysis, "has_evolution", FALSE)
     /\ Get(evolution_analysis, "change_count", 0) > 2]

\* (mutant) a flag count kept on the service and added to by every analysis
FlagCountAccumulated(flags) ==
  Cardinality({f \in DOMAIN flags : flags[f]}) + Get(analysis, "flag_count", 0)

\* sum(flags.values())
FlagCount(flags) ==
  Cardinality({f \in DOMAIN flags : flags[f]})

\* the four texts of _generate_recommendation
HighRiskText == "HIGH RISK: Immediate review recommended. Multiple red flags detected."

MediumRiskText == "MEDIUM RISK: Review recommended. Some concerning patterns detected."

MonitorText == "MONITOR: Keep monitoring for emerging patterns."

LowRiskText == "LOW RISK: Appears to be legitimate news coverage."

\* (mutant) a recommendation with thresholds under those of the risk levels
generate_recommendation_lowered(flags, risk_score) ==
  IF AtLeast(risk_score, 3500)
  THEN HighRiskText
  ELSE IF ~AtLeast(risk_score, 3500) /\ AtLeast(risk_score, 3000)
  THEN MediumRiskText
  ELSE IF flags.rapid_growth \/ flags.has_contradictions
  THEN MonitorText
  ELSE LowRiskText

\* (mutant) a recommendation that monitors on any flag
generate_recommendation_any_flag(flags, risk_score) ==
  IF AtLeast(risk_score, 7000)
  THEN HighRiskText
  ELSE IF AtLeast(risk_score, 4000)
  THEN MediumRiskText
  ELSE IF \E f \in DOMAIN flags : flags[f]
  THEN MonitorText
  ELSE LowRiskText

generate_recommendation(flags, risk_score) ==
  IF AtLeast(risk_score, 7000)
  THEN HighRiskText
  ELSE IF AtLeast(risk_score, 4000)
  THEN MediumRiskText
  ELSE IF flags.rapid_growth \/ flags.has_contradictions
  THEN MonitorText
  ELSE LowRiskText

\* the record built from the four sub-reports; `unrounded` is the local
\* overall_risk_score before it is rounded for the record
Assemble(datapoint_count, growth_analysis, credibility_analysis, contradiction_analysis, evolution_analysis, side) ==
  LET overall == [value |-> WeightedSum(Get(growth_analysis, "risk_score", 0),
                                        Get(credibility_analysis, "risk_score", 0),
                                        Get(contradiction_analysis, "risk_score", 0),
                                        Get(evolution_analysis, "risk_score", 0)),
                  side |-> side]
      flags == Flags(growth_analysis, credibility_analysis, contradiction_analysis,
                     evolution_analysis)
  IN [datapoint_count |-> datapoint_count,
      unrounded |-> overall,
      overall_risk_score |-> RoundOverall(overall),
      risk_level |-> RiskLevel(overall),
      flags |-> flags,
      flag_count |-> FlagCount(flags),
      growth_analysis |-> growth_analysis,
      credibility_analysis |-> credibility_analysis,
      contradiction_analysis |-> contradiction_analysis,
      evolution_analysis |-> evolution_analysis,
      recommendation |-> generate_recommendation(flags, overall)]

\* the records analyze_cluster can return for a cluster
analyze_cluster(cl) ==
  IF cl.datapoint_count = 0
  THEN {[error |-> "Cluster not found or empty", datapoint_count |-> 0]}
  ELSE UNION
    {{Assemble(cl.datapoint_count, t[1], t[2], t[3], t[4], side) :
        side \in FloatSides(WeightedSum(t[1].risk_score, t[2].risk_score,
                                        t[3].risk_score, t[4].risk_score))} :
       t \in detect_rapid_growth(cl) \X analyze_source_credibility(cl)
               \X detect_contradictions(cl) \X track_narrative_evolution(cl)}

\* no analysis made yet
NoAnalysis == <<>>

AnalyzeCluster ==
  /\ analysis = NoAnalysis
  /\ analysis' \in analyze_cluster(cluster)
  /\ UNCHANGED <<store, input, call, clusters, writes, raised, lastOutcome, cluster, others>>

\* the results of the float operations of one analysis: the four rounded
\* sub-scores, the rounded growth rate and credible ratio and the side of
\* the weighted sum
Arithmetic(a) ==
  IF "risk_level" \notin DOMAIN a THEN <<>>
  ELSE <<a.growth_analysis.risk_score, a.growth_analysis.growth_rate,
         a.credibility_analysis.risk_score,
         a.credibility_analysis.credible_ratio, a.contradiction_analysis.risk_score,
         a.evolution_analysis.risk_score, a.unrounded.side>>

\* a second analyze_cluster call on the same cluster id. It reads the
\* collection again, which nothing has written to, and a float operation
\* on the same operands gives the same float as in the first call
AnalyzeClusterAgain ==
  /\ analysis # NoAnalysis
  /\ again = NoAnalysis
  /\ again' \in {a \in analyze_cluster(cluster) : Arithmetic(a) = Arithmetic(analysis)}
  /\ UNCHANGED <<store, input, call, clusters, writes, raised, lastOutcome, cluster, analysis, batch,
                 timeline, runs, details>>

----------------------------------------------------------------------------
(* The clusters handed to analyze_cluster. A cluster is described by the   *)
(* number of its datapoints and by the counts the analyzers derive from    *)
(* them. The published_at of a datapoint is a datetime, a string that      *)
(* parses to one, or a value no timestamp can be read from. Counts are     *)
(* taken at and next to both ends of their range and around the values     *)
(* the analyzers compare them with.                                        *)

Sample(lo, hi, marks) ==
  {x \in (lo..(lo + Slack)) \cup ((hi - Slack)..hi) \cup marks : lo <= x /\ x <= hi}

\* 10 is the size the growth test asks of the recent window
ClusterSizes == (0..SmallSize) \cup {10, MaxSize}

\* the timestamps of n datapoints, as detect_rapid_growth and
\* _create_time_windows see them: all within two hours (one window); spread
\* over seven hours (two windows, the early points in the previous growth
\* window); or the first one long before the most recent one: the points
\* older than both growth windows open one window together or up to one
\* each, those of the previous growth window join the last of these or open
\* one more (the first window ends before they begin), and the most recent
\* point always opens the last one
Timelines(n) ==
  IF n < 2
  THEN {[current_size |-> n, previous_size |-> 0, time_span_hours |-> 0, time_windows |-> n]}
  ELSE LET Burst ==
             {[current_size |-> n, previous_size |-> 0, time_span_hours |-> s,
               time_windows |-> 1] : s \in 0..2}
           Spread ==
             {[current_size |-> c, previous_size |-> n - c,
               time_span_hours |-> WindowHours + 1, time_windows |-> 2] :
                c \in Sample(1, n - 1, {9, 10})}
           Long(c, p) ==
             {[current_size |-> c, previous_size |-> p,
               time_span_hours |-> WindowHours * MaxSize + 1, time_windows |-> w] :
                w \in IF p = 0 THEN Sample(2, n - c + 1, {})
                      ELSE Sample(3, n - c - p + 2, {})}
       IN Burst \cup Spread \cup
          UNION {UNION {Long(c, p) : p \in Sample(0, n - c - 1, {})} :
                   c \in Sample(1, n - 1, {9, 10})}

\* a fact-checking source is itself a credible source
Sources(n) ==
  UNION {UNION {{[credible_count |-> c, questionable_count |-> q,
                  fact_checkers_present |-> f] :
                   f \in IF c > 0 THEN BOOLEAN ELSE {FALSE}} :
                 q \in Sample(0, n - c, {})} :
           c \in Sample(0, n, {})}

\* distinct unordered pairs of n datapoints
PairCounts(n) ==
  IF n < 2 THEN {0}
  ELSE Sample(0, (n * (n - 1)) \div 2, {2, 3, 4, n \div 5, n \div 5 + 1, n - 1, n, n + 1})

\* a change is recorded for a window after the first
ChangeCounts(n, time_windows) ==
  IF n < 3 THEN {0} ELSE Sample(0, time_windows - 1, {2, 3})

\* how many of n datapoints carry a published_at that can be read as a
\* datetime: none, fewer than the analyzers ask for, just enough, or all;
\* the timeline is that of these
Timestamps(n) == {m \in {0, 1, 2, n} : m <= n}

Evidence(n, m, t, k, s, p) ==
  [datapoint_count |-> n,
   timestamps |-> m,
   current_size |-> t.current_size,
   previous_size |-> t.previous_size,
   time_span_hours |-> t.time_span_hours,
   time_windows |-> t.time_windows,
   key_changes |-> k,
   credible_count |-> s.credible_count,
   questionable_count |-> s.questionable_count,
   fact_checkers_present |-> s.fact_checkers_present,
   unique_pairs |-> p]

\* no datapoint carries the cluster id
NoDatapoints ==
  [datapoint_count |-> 0, timestamps |-> 0, current_size |-> 0, previous_size |-> 0, time_span_hours |-> 0,
   time_windows |-> 0, key_changes |-> 0, credible_count |-> 0, questionable_count |-> 0,
   fact_checkers_present |-> FALSE, unique_pairs |-> 0]

----------------------------------------------------------------------------
(* analyze_all_clusters. The call enumerates the cluster ids found on the  *)
(* recent datapoints and analyses them one after the other. An enumerated  *)
(* cluster is described by what analyze_cluster then finds under its id    *)
(* and by whether an analyzer raises on it (datetimes that cannot be       *)
(* compared, a field of the wrong type, a failing store read).             *)

\* two credible datapoints a week apart
LowCluster ==
  Evidence(2, 2, [current_size |-> 1, previous_size |-> 0,
               time_span_hours |-> WindowHours * MaxSize + 1, time_windows |-> 2],
           0, [credible_count |-> 2, questionable_count |-> 0, fact_checkers_present |-> FALSE], 0)

\* two contradicting datapoints from questionable sources
MediumCluster ==
  Evidence(2, 2, [current_size |-> 1, previous_size |-> 0,
               time_span_hours |-> WindowHours * MaxSize + 1, time_windows |-> 2],
           0, [credible_count |-> 0, questionable_count |-> 2, fact_checkers_present |-> FALSE], 1)

\* three datapoints from questionable sources, each contradicting the others
HighCluster ==
  Evidence(3, 3, [current_size |-> 1, previous_size |-> 0,
               time_span_hours |-> WindowHours * MaxSize + 1, time_windows |-> 2],
           1, [credible_count |-> 0, questionable_count |-> 3, fact_checkers_present |-> FALSE], 3)

\* the kinds of cluster a batch meets; the last two fail: an analyzer
\* raises, or the datapoints have left the cluster since the enumeration
BatchClusters ==
  {[evidence |-> LowCluster, raises |-> FALSE],
   [evidence |-> MediumCluster, raises |-> FALSE],
   [evidence |-> HighCluster, raises |-> FALSE],
   [evidence |-> LowCluster, raises |-> TRUE],
   [evidence |-> NoDatapoints, raises |-> FALSE]}

\* the entry the except branch records for a cluster
ErrorEntry == [error |-> "exception"]

\* analyses[cluster_id] after the loop body ran for one cluster
AnalysisEntries(c) == IF c.raises THEN {ErrorEntry} ELSE analyze_cluster(c.evidence)

RECURSIVE SumOf(_, _)
SumOf(f, S) == IF S = {} THEN 0 ELSE LET x == CHOOSE x \in S : TRUE IN f[x] + SumOf(f, S \ {x})

\* the summary statistics and the returned record, for each way the mean
\* can be rounded
Summary(analyses) ==
  LET scored == {i \in DOMAIN analyses : "overall_risk_score" \in DOMAIN analyses[i]}
      high_risk_clusters == {i \in DOMAIN analyses : Get(analyses[i], "risk_level", "") = "high"}
      medium_risk_clusters == {i \in DOMAIN analyses : Get(analyses[i], "risk_level", "") = "medium"}
      risk_scores == [i \in scored |-> analyses[i].overall_risk_score]
  IN {[total_clusters_analyzed |-> Len(analyses),
       high_risk_clusters |-> Cardinality(high_risk_clusters),
       medium_risk_clusters |-> Cardinality(medium_risk_clusters),
       low_risk_clusters |->
         Len(analyses) - Cardinality(high_risk_clusters) - Cardinality(medium_risk_clusters),
       average_risk_score |-> avg,
       high_risk_cluster_ids |-> high_risk_clusters,
       analyses |-> analyses] :
        avg \in IF scored = {} THEN {0}
                ELSE Round3(Frac(SumOf(risk_scores, scored), 1000 * Cardinality(scored)))}

\* (mutant) a loop that stops at the first cluster that raises
AnalysesUntilFailure(clusters_to_analyze) ==
  LET Upto == IF \E i \in DOMAIN clusters_to_analyze : clusters_to_analyze[i].raises
              THEN (CHOOSE i \in DOMAIN clusters_to_analyze :
                      /\ clusters_to_analyze[i].raises
                      /\ \A j \in 1..(i - 1) : ~clusters_to_analyze[j].raises) - 1
              ELSE Len(clusters_to_analyze)
  IN {f \in [1..Upto -> UNION {AnalysisEntries(c) : c \in BatchClusters}] :
        \A i \in 1..Upto : f[i] \in AnalysisEntries(clusters_to_analyze[i])}

\* the analyses the loop over clusters_to_analyze can build, the i-th entry
\* standing under the i-th enumerated cluster id
Analyses(clusters_to_analyze) ==
  {f \in [DOMAIN clusters_to_analyze -> UNION {AnalysisEntries(c) : c \in BatchClusters}] :
     \A i \in DOMAIN clusters_to_analyze : f[i] \in AnalysisEntries(clusters_to_analyze[i])}

\* no batch call made yet
NoResult == <<>>

NoBatch == [clusters_to_analyze |-> <<>>, result |-> NoResult]

analyze_all_clusters(clusters_to_analyze) ==
  UNION {Summary(analyses) : analyses \in Analyses(clusters_to_analyze)}

AnalyzeAllClusters ==
  /\ batch.result = NoResult
  /\ \E result \in analyze_all_clusters(batch.clusters_to_analyze) :
       batch' = [batch EXCEPT !.result = result]
  /\ UNCHANGED <<store, input, call, clusters, writes, raised, lastOutcome, cluster, analysis, again,
                 timeline, runs, details>>

----------------------------------------------------------------------------
(* The timestamps of a cluster, in whole hours, and what detect_rapid_     *)
(* growth and _create_time_windows make of them.                           *)

\* the hours at which datapoints are published: three early ones, and one
\* and two hours after one and after two growth windows
Hours ==
  {0, 1, 2, WindowHours + 1, WindowHours + 2, 2 * WindowHours + 1, 2 * WindowHours + 2}

\* how many datapoints are published in one hour
HourCounts == {0, 1, MaxPerHour - 1, MaxPerHour}

\* no timestamps on record
NoTimeline == [h \in Hours |-> 0]

Max(S) == CHOOSE x \in S : \A y \in S : y <= x

RECURSIVE CountIn(_, _)
CountIn(tl, S) ==
  IF S = {} THEN 0 ELSE LET h == CHOOSE h \in S : TRUE IN tl[h] + CountIn(tl, S \ {h})

\* the hours that carry a timestamp
Published(tl) == {h \in DOMAIN tl : tl[h] > 0}

\* (mutant) a recent window that leaves out its first instant
RecentWindowOpen(tl) ==
  LET most_recent == Max(Published(tl))
      window_start == most_recent - WindowHours
  IN {h \in Published(tl) : h > window_start}

\* recent_window: ts >= window_start
RecentWindow(tl) ==
  LET most_recent == Max(Published(tl))
      window_start == most_recent - WindowHours
  IN {h \in Published(tl) : h >= window_start}

\* previous_window: previous_window_start <= ts < window_start
PreviousWindow(tl) ==
  LET most_recent == Max(Published(tl))
      window_start == most_recent - WindowHours
      previous_window_start == window_start - WindowHours
  IN {h \in Published(tl) : previous_window_start <= h /\ h < window_start}

\* _create_time_windows over the sorted timestamps from hour `from` on,
\* the current window having started at window_start: the number of
\* windows still to be appended
RECURSIVE WindowsFrom(_, _, _)
WindowsFrom(tl, from, window_start) ==
  LET rest == {h \in Published(tl) : h >= from}
  IN IF rest = {} THEN 1
     ELSE LET ts == Min(rest)
          IN IF ts - window_start <= WindowHours
             THEN WindowsFrom(tl, ts + 1, window_start)
             ELSE 1 + WindowsFrom(tl, ts + 1, ts)

create_time_windows(tl) ==
  IF Published(tl) = {} THEN 0
  ELSE WindowsFrom(tl, Min(Published(tl)) + 1, Min(Published(tl)))

\* the cluster that has these timestamps: credible sources, no
\* contradiction, no change of keywords
ClusterOfTimeline(tl) ==
  LET n == CountIn(tl, DOMAIN tl)
  IN IF n = 0 THEN NoDatapoints
     ELSE Evidence(n, n,
                   [current_size |-> CountIn(tl, RecentWindow(tl)),
                    previous_size |-> CountIn(tl, PreviousWindow(tl)),
                    time_span_hours |-> Max(Published(tl)) - Min(Published(tl)),
                    time_windows |-> create_time_windows(tl)],
                   0,
                   [credible_count |-> n, questionable_count |-> 0,
                    fact_checkers_present |-> FALSE],
                   0)

----------------------------------------------------------------------------
(* Specifications. *)

\* the store as ingestion leaves it: no datapoint clustered yet
FreshStore == [d \in StoredIds |-> [cluster_id |-> NoCluster, clustered |-> FALSE]]

\* the service over its lifetime: any sequence of clustering runs
Init ==
  /\ store = FreshStore
  /\ input = <<>>
  /\ call = NoCall
  /\ clusters = <<>>
  /\ writes = <<>>
  /\ raised = FALSE
  /\ lastOutcome = [d \in DocIds |-> "never"]
  /\ cluster = NoDatapoints
  /\ analysis = NoAnalysis
  /\ batch = NoBatch
  /\ again = NoAnalysis
  /\ timeline = NoTimeline
  /\ runs = NoRuns
  /\ sources = NoSources
  /\ articles = NoArticles
  /\ windows = NoWindows
  /\ reads = NoReads

Next == ClusterRecent \/ ClusterByIds

Spec == Init /\ [][Next]_vars

\* the store after a first cluster_recent_datapoints() with the defaults
ClusteredStore ==
  ApplyWrites(FreshStore,
              cluster_datapoints(get_recent_datapoints(FreshStore, ContextHours), None).writes)

\* one call of a clustering function on an arbitrary list of documents
\* (distinct _id) whose list embeddings are of one length, on a store that
\* holds earlier cluster ids or none
InitCall ==
  /\ store \in {FreshStore, ClusteredStore}
  /\ input \in DistinctSeqs(DocIds \ OtherLength, MaxInput)
  /\ call = NoCall
  /\ clusters = <<>>
  /\ writes = <<>>
  /\ raised = FALSE
  /\ lastOutcome = [d \in DocIds |-> "never"]
  /\ cluster = NoDatapoints
  /\ analysis = NoAnalysis
  /\ batch = NoBatch
  /\ again = NoAnalysis
  /\ timeline = NoTimeline
  /\ runs = NoRuns
  /\ sources = NoSources
  /\ articles = NoArticles
  /\ windows = NoWindows
  /\ reads = NoReads

NextCall == CallClusterDatapoints \/ CallClusterDatapointsSimple

SpecCall == InitCall /\ [][NextCall]_vars

\* one call of a clustering function on an arbitrary list of documents that
\* holds an embedding of another length
InitDims ==
  /\ store \in {FreshStore, ClusteredStore}
  /\ input \in {s \in DistinctSeqs(DocIds, MaxInput) : Range(s) \cap OtherLength # {}}
  /\ call = NoCall
  /\ clusters = <<>>
  /\ writes = <<>>
  /\ raised = FALSE
  /\ lastOutcome = [d \in DocIds |-> "never"]
  /\ cluster = NoDatapoints
  /\ analysis = NoAnalysis
  /\ batch = NoBatch
  /\ again = NoAnalysis
  /\ timeline = NoTimeline
  /\ runs = NoRuns
  /\ sources = NoSources
  /\ articles = NoArticles
  /\ windows = NoWindows
  /\ reads = NoReads

NextDims == CallClusterDatapoints \/ CallClusterDatapointsSimple

SpecDims == InitDims /\ [][NextDims]_vars

\* one call of cluster_datapoints_by_ids on an arbitrary list of ids
InitByIds ==
  /\ store \in {FreshStore, ClusteredStore}
  /\ input \in {<<>>} \cup SeqsUpTo(RequestableIds, MaxIds)
  /\ call = NoCall
  /\ clusters = <<>>
  /\ writes = <<>>
  /\ raised = FALSE
  /\ lastOutcome = [d \in DocIds |-> "never"]
  /\ cluster = NoDatapoints
  /\ analysis = NoAnalysis
  /\ batch = NoBatch
  /\ again = NoAnalysis
  /\ timeline = NoTimeline
  /\ runs = NoRuns
  /\ sources = NoSources
  /\ articles = NoArticles
  /\ windows = NoWindows
  /\ reads = NoReads

NextByIds == CallClusterDatapointsByIds

SpecByIds == InitByIds /\ [][NextByIds]_vars

\* one analyze_source_credibility call on a cluster of datapoints with
\* arbitrary source names
InitSources ==
  /\ store = FreshStore
  /\ input = <<>>
  /\ call = NoCall
  /\ clusters = <<>>
  /\ writes = <<>>
  /\ raised = FALSE
  /\ lastOutcome = [d \in DocIds |-> "never"]
  /\ cluster = NoDatapoints
  /\ analysis = NoAnalysis
  /\ batch = NoBatch
  /\ again = NoAnalysis
  /\ timeline = NoTimeline
  /\ runs = NoRuns
  /\ \E names \in {<<>>} \cup SeqsUpTo(SourceNames, MaxSources) :
       sources = [NoSources EXCEPT !.names = names]
  /\ articles = NoArticles
  /\ windows = NoWindows
  /\ reads = NoReads

NextSources == AnalyzeSourceCredibility

SpecSources == InitSources /\ [][NextSources]_vars

\* one detect_contradictions call on a cluster of datapoints with arbitrary
\* titles and embeddings, in the order in which the store returns them
InitArticles ==
  /\ store = FreshStore
  /\ input = <<>>
  /\ call = NoCall
  /\ clusters = <<>>
  /\ writes = <<>>
  /\ raised = FALSE
  /\ lastOutcome = [d \in DocIds |-> "never"]
  /\ cluster = NoDatapoints
  /\ analysis = NoAnalysis
  /\ batch = NoBatch
  /\ again = NoAnalysis
  /\ timeline = NoTimeline
  /\ runs = NoRuns
  /\ sources = NoSources
  /\ \E n \in 0..MaxArticles :
       \E titles \in [1..n -> Titles], embeddings \in [1..n -> ClaimEmbeddings] :
         articles = [NoArticles EXCEPT
                      !.datapoints = [i \in 1..n |->
                                        [id |-> i, title |-> titles[i],
                                         embedding |-> embeddings[i]]]]
  /\ windows = NoWindows
  /\ reads = NoReads

NextArticles == DetectContradictions

SpecArticles == InitArticles /\ [][NextArticles]_vars

\* one _create_time_windows call on a list sorted by timestamp
InitWindows ==
  /\ store = FreshStore
  /\ input = <<>>
  /\ call = NoCall
  /\ clusters = <<>>
  /\ writes = <<>>
  /\ raised = FALSE
  /\ lastOutcome = [d \in DocIds |-> "never"]
  /\ cluster = NoDatapoints
  /\ analysis = NoAnalysis
  /\ batch = NoBatch
  /\ again = NoAnalysis
  /\ timeline = NoTimeline
  /\ runs = NoRuns
  /\ sources = NoSources
  /\ articles = NoArticles
  /\ \/ windows = NoWindows
     \/ \E n \in 0..(MaxPoints - 1) : \E gaps \in [1..n -> Gaps] :
          windows = [NoWindows EXCEPT !.datapoints_with_time = SortedList(gaps)]
  /\ reads = NoReads

NextWindows == CreateTimeWindows

SpecWindows == InitWindows /\ [][NextWindows]_vars

\* two cluster_datapoints calls on lists of stored documents, running at the
\* same time from the point where each has its labels
InitConcurrent ==
  /\ store \in {FreshStore, ClusteredStore}
  /\ input = <<>>
  /\ call = NoCall
  /\ clusters = <<>>
  /\ writes = <<>>
  /\ raised = FALSE
  /\ lastOutcome = [d \in DocIds |-> "never"]
  /\ cluster = NoDatapoints
  /\ analysis = NoAnalysis
  /\ batch = NoBatch
  /\ again = NoAnalysis
  /\ timeline = NoTimeline
  /\ LET requests == {cluster_datapoints(datapoints, min_cluster_size).writes :
                        datapoints \in DistinctSeqs(StoredIds, MaxRun),
                        min_cluster_size \in {None, 1}}
     IN \E ws1, ws2 \in requests : runs = Concurrent(store, ws1, ws2)
  /\ sources = NoSources
  /\ articles = NoArticles
  /\ windows = NoWindows
  /\ reads = NoReads

NextConcurrent == \E r \in {1, 2} : GroupingLoopWrite(r)

SpecConcurrent == InitConcurrent /\ [][NextConcurrent]_vars

\* one analyze_cluster call on a cluster id while one cluster_datapoints call
\* on a list of stored documents is in its grouping loop
InitRacing ==
  /\ store \in {FreshStore, ClusteredStore}
  /\ input = <<>>
  /\ call = NoCall
  /\ clusters = <<>>
  /\ writes = <<>>
  /\ raised = FALSE
  /\ lastOutcome = [d \in DocIds |-> "never"]
  /\ cluster = NoDatapoints
  /\ analysis = NoAnalysis
  /\ batch = NoBatch
  /\ again = NoAnalysis
  /\ timeline = NoTimeline
  /\ LET requests == {cluster_datapoints(datapoints, min_cluster_size).writes :
                        datapoints \in DistinctSeqs(StoredIds, MaxRun),
                        min_cluster_size \in {None, 1}}
     IN \E ws \in requests : runs = Concurrent(store, ws, <<>>)
  /\ sources = NoSources
  /\ articles = NoArticles
  /\ windows = NoWindows
  /\ \E label \in {0, 1} : reads = [NoReads EXCEPT !.cluster_id = ClusterId(label)]

NextRacing == AnalyzeClusterRead \/ GroupingLoopWrite(1)

SpecRacing == InitRacing /\ [][NextRacing]_vars

\* one analyze_cluster call on an arbitrary cluster
InitAnalyze ==
  /\ store = FreshStore
  /\ input = <<>>
  /\ call = NoCall
  /\ clusters = <<>>
  /\ writes = <<>>
  /\ raised = FALSE
  /\ lastOutcome = [d \in DocIds |-> "never"]
  /\ \E n \in ClusterSizes : \E m \in Timestamps(n) : \E t \in Timelines(m) :
       \E k \in ChangeCounts(m, t.time_windows), s \in Sources(n), p \in PairCounts(n) :
         cluster = Evidence(n, m, t, k, s, p)
  /\ analysis = NoAnalysis
  /\ batch = NoBatch
  /\ again = NoAnalysis
  /\ timeline = NoTimeline
  /\ runs = NoRuns
  /\ sources = NoSources
  /\ articles = NoArticles
  /\ windows = NoWindows
  /\ reads = NoReads

NextAnalyze == AnalyzeCluster

SpecAnalyze == InitAnalyze /\ [][NextAnalyze]_vars

\* two consecutive analyze_cluster calls on an arbitrary cluster
NextReanalyze == AnalyzeCluster \/ AnalyzeClusterAgain

SpecReanalyze == InitAnalyze /\ [][NextReanalyze]_vars

\* one analyze_cluster call on a cluster with arbitrary timestamps
InitGrowth ==
  /\ store = FreshStore
  /\ input = <<>>
  /\ call = NoCall
  /\ clusters = <<>>
  /\ writes = <<>>
  /\ raised = FALSE
  /\ lastOutcome = [d \in DocIds |-> "never"]
  /\ timeline \in [Hours -> HourCounts]
  /\ cluster = ClusterOfTimeline(timeline)
  /\ analysis = NoAnalysis
  /\ batch = NoBatch
  /\ again = NoAnalysis
  /\ runs = NoRuns
  /\ sources = NoSources
  /\ articles = NoArticles
  /\ windows = NoWindows
  /\ reads = NoReads

NextGrowth == AnalyzeCluster

SpecGrowth == InitGrowth /\ [][NextGrowth]_vars

\* one analyze_all_clusters call on an arbitrary enumeration of clusters
InitBatch ==
  /\ store = FreshStore
  /\ input = <<>>
  /\ call = NoCall
  /\ clusters = <<>>
  /\ writes = <<>>
  /\ raised = FALSE
  /\ lastOutcome = [d \in DocIds |-> "never"]
  /\ cluster = NoDatapoints
  /\ analysis = NoAnalysis
  /\ \E clusters_to_analyze \in {<<>>} \cup SeqsUpTo(BatchClusters, MaxBatch) :
       batch = [clusters_to_analyze |-> clusters_to_analyze, result |-> NoResult]
  /\ again = NoAnalysis
  /\ timeline = NoTimeline
  /\ runs = NoRuns
  /\ sources = NoSources
  /\ articles = NoArticles
  /\ windows = NoWindows
  /\ reads = NoReads

NextBatch == AnalyzeAllClusters

SpecBatch == InitBatch /\ [][NextBatch]_vars

----------------------------------------------------------------------------
(* Claims about one clustering call (SpecCall).                            *)

Density == call.op = "cluster_datapoints"

Fallback == call.op = "cluster_datapoints_simple"

\* min_samples as cluster_datapoints derives it from the override
MinSamplesOf(min_cluster_size) ==
  IF min_cluster_size # None THEN min_cluster_size ELSE DefaultMinSamples

\* the input list in the order of the document ids
Canon(datapoints) == Ascending(Range(datapoints))

\* the grouping of ids a returned mapping stands for, labels forgotten
Grouping(cl) == {Range(cl[c]) : c \in DOMAIN cl}

\* the core points of an input: at least min_samples valid points within eps
CorePoints(datapoints, min_samples) ==
  LET valid == SelectSeq(datapoints, ValidEmbedding)
  IN {valid[i] : i \in {k \in DOMAIN valid : IsCore(valid, k, min_samples)}}

\* C1: cluster_datapoints returns the same grouping of ids for every
\* permutation of its input list. Every permutation of every list is an
\* input of SpecCall, so the claim is that each call's grouping equals the
\* grouping obtained for the same documents in id order.
C1_OrderInvariant ==
  Density =>
    Grouping(clusters) =
      Grouping(cluster_datapoints(Canon(input), call.min_cluster_size).clusters)

\* C1 (amended): for every permutation the same datapoints are clustered
\* and the core points are grouped the same way; with minPts <= 2 the whole
\* grouping is the same. Only a non-core border point can change cluster.
C1_CoreOrderInvariant ==
  Density =>
    LET other == cluster_datapoints(Canon(input), call.min_cluster_size).clusters
        core == CorePoints(input, MinSamplesOf(call.min_cluster_size))
    IN /\ Members(clusters) = Members(other)
       /\ {g \cap core : g \in Grouping(clusters)} = {g \cap core : g \in Grouping(other)}
       /\ MinSamplesOf(call.min_cluster_size) <= 2 => Grouping(clusters) = Grouping(other)

\* a call on a list out of id order that returns two clusters and a border point
C1_Witness ==
  /\ Density
  /\ input # Canon(input)
  /\ Cardinality(DOMAIN clusters) >= 2
  /\ Members(clusters) \ CorePoints(input, MinSamplesOf(call.min_cluster_size)) # {}

\* C2: in the mapping returned by one call (density or fallback) a
\* datapoint appears in at most one cluster and at most once in it.
C2_MemberOnce ==
  (Density \/ Fallback) =>
    \A c1, c2 \in DOMAIN clusters :
      \A i \in DOMAIN clusters[c1], j \in DOMAIN clusters[c2] :
        clusters[c1][i] = clusters[c2][j] => c1 = c2 /\ i = j

\* a fallback call that returned two clusters
C2_Witness == Fallback /\ Cardinality(DOMAIN clusters) >= 2

\* C3: every cluster returned by cluster_datapoints has at least minPts
\* members and every cluster returned by cluster_datapoints_simple has at
\* least min_cluster_size members.
C3_MinClusterSize ==
  /\ Density => \A c \in DOMAIN clusters :
                  Len(clusters[c]) >= MinSamplesOf(call.min_cluster_size)
  /\ Fallback => \A c \in DOMAIN clusters : Len(clusters[c]) >= call.min_cluster_size

\* an embedding that is present, list-typed and non-empty
ListEmbedding(d) == Embedding(d).kind = "list" /\ Len(Embedding(d).vec) > 0

\* C4: with fewer than 2 input datapoints carrying a valid embedding,
\* cluster_datapoints returns the empty mapping, raises nothing and issues
\* no cluster-id write.
C4_TooFewEmbeddings ==
  (Density /\ Cardinality({d \in Range(input) : ListEmbedding(d)}) < 2) =>
    /\ clusters = <<>>
    /\ ~raised
    /\ writes = <<>>

\* a density call on one valid datapoint next to a non-list embedding
C4_Witness ==
  /\ Density
  /\ Cardinality({d \in Range(input) : ListEmbedding(d)}) = 1
  /\ \E d \in Range(input) : Embedding(d).kind = "nonlist"
  /\ clusters = <<>>

\* the cluster a datapoint is returned in
ClusterOf(cl, d) == CHOOSE c \in DOMAIN cl : d \in Range(cl[c])

----------------------------------------------------------------------------
(* Claims about sequences of clustering runs (Spec).                       *)

\* C6: every datapoint whose store record carries a cluster id was a
\* cluster member in the most recent run that labelled it.
C6_IdMeansMember ==
  \A d \in StoredIds : store[d].cluster_id # NoCluster => lastOutcome[d] = "member"

----------------------------------------------------------------------------
(* Claims about one analyze_cluster call (SpecAnalyze).                    *)

\* the call returned a full analysis (not the empty-cluster error record)
Analysed == "risk_level" \in DOMAIN analysis

\* C7: overall_risk_score equals 0.1*g + 0.4*c + 0.3*k + 0.2*e for the
\* risk_score values g, c, k, e of the four sub-reports in the same record,
\* up to the rounding to 3 decimals.
C7_OverallIsWeightedSum ==
  Analysed =>
    LET exact == 1 * analysis.growth_analysis.risk_score
                 + 4 * analysis.credibility_analysis.risk_score
                 + 3 * analysis.contradiction_analysis.risk_score
                 + 2 * analysis.evolution_analysis.risk_score
    IN /\ analysis.unrounded.value = exact
       /\ 10 * analysis.overall_risk_score - exact \in -5..5

\* an analysis with four non-zero sub-scores whose sum needs rounding
C7_Witness ==
  /\ Analysed
  /\ analysis.growth_analysis.risk_score > 0
  /\ analysis.credibility_analysis.risk_score > 0
  /\ analysis.contradiction_analysis.risk_score > 0
  /\ analysis.evolution_analysis.risk_score > 0
  /\ analysis.unrounded.value % 10 # 0

\* C8: risk_level is "high" when overall >= 0.6, "medium" when
\* 0.35 <= overall < 0.6 and "low" when overall < 0.35; 0.6 itself is
\* "high" and 0.35 itself is "medium".
C8_RiskLevel ==
  Analysed =>
    LET overall == analysis.unrounded
    IN /\ AtLeast(overall, 6000) => analysis.risk_level = "high"
       /\ (AtLeast(overall, 3500) /\ ~AtLeast(overall, 6000)) =>
            analysis.risk_level = "medium"
       /\ ~AtLeast(overall, 3500) => analysis.risk_level = "low"

\* an analysis whose overall score is 0.6 exactly
C8_Witness ==
  /\ Analysed
  /\ analysis.unrounded = [value |-> 6000, side |-> 0]
  /\ analysis.risk_level = "high"

\* C9: the four flags are functions of the sub-reports in the same record:
\* rapid_growth = is_rapid_growth; low_credibility = credible_ratio <
\* 0.7 * min_credible_source_ratio; has_contradictions = has_contradictions
\* and contradiction_count > 2; narrative_evolution = has_evolution and
\* change_count > 2; flag_count is the number of true flags, in 0..4.
C9_FlagsFromSubReports ==
  Analysed =>
    LET flags == analysis.flags
        growth == analysis.growth_analysis
        credibility == analysis.credibility_analysis
        contradiction == analysis.contradiction_analysis
        evolution == analysis.evolution_analysis
        truth(b) == IF b THEN 1 ELSE 0
    IN /\ flags.rapid_growth = growth.is_rapid_growth
       /\ flags.low_credibility = (credibility.credible_ratio < 210)
       /\ flags.has_contradictions =
            (contradiction.has_contradictions /\ contradiction.contradiction_count > 2)
       /\ flags.narrative_evolution =
            (evolution.has_evolution /\ Get(evolution, "change_count", 0) > 2)
       /\ analysis.flag_count = truth(flags.rapid_growth) + truth(flags.low_credibility)
                                + truth(flags.has_contradictions)
                                + truth(flags.narrative_evolution)
       /\ analysis.flag_count \in 0..4

\* an analysis with contradictions and changes reported by the analyzers,
\* too few of them to raise the two flags, and the two other flags raised
C9_Witness ==
  /\ Analysed
  /\ analysis.contradiction_analysis.has_contradictions
  /\ ~analysis.flags.has_contradictions
  /\ analysis.evolution_analysis.has_evolution
  /\ ~analysis.flags.narrative_evolution
  /\ analysis.flags.rapid_growth
  /\ analysis.flags.low_credibility
  /\ analysis.flag_count = 2

\* C10: the recommendation is the high-risk text when overall >= 0.7, else
\* the medium-risk text when overall >= 0.4, else the monitor text when the
\* rapid_growth flag or the has_contradictions flag is set, else the
\* low-risk text; the two other flags never change it.
C10_RecommendationTiers ==
  Analysed =>
    analysis.recommendation =
      IF AtLeast(analysis.unrounded, 7000) THEN HighRiskText
      ELSE IF AtLeast(analysis.unrounded, 4000) THEN MediumRiskText
      ELSE IF analysis.flags.rapid_growth \/ analysis.flags.has_contradictions
      THEN MonitorText
      ELSE LowRiskText

\* an analysis below 0.4 with the low_credibility and narrative_evolution
\* flags raised and the low-risk text
C10_Witness ==
  /\ Analysed
  /\ analysis.flags.low_credibility
  /\ analysis.flags.narrative_evolution
  /\ analysis.recommendation = LowRiskText

\* C14: the risk_score of each of the four analyzers and the
\* overall_risk_score lie in [0,1] and the growth risk_score never exceeds
\* 0.2, for every cluster content, an infinite growth_rate and more
\* contradicting pairs than datapoints included.
C14_ScoresInRange ==
  /\ \A r \in detect_rapid_growth(cluster) : r.risk_score \in 0..200
  /\ \A r \in analyze_source_credibility(cluster) \cup detect_contradictions(cluster)
              \cup track_narrative_evolution(cluster) : r.risk_score \in 0..1000
  /\ Analysed =>
       /\ analysis.growth_analysis.risk_score \in 0..200
       /\ analysis.credibility_analysis.risk_score \in 0..1000
       /\ analysis.contradiction_analysis.risk_score \in 0..1000
       /\ analysis.evolution_analysis.risk_score \in 0..1000
       /\ analysis.overall_risk_score \in 0..1000

\* an analysis of a cluster with an infinite growth rate and more
\* contradicting pairs than datapoints
C14_Witness ==
  /\ Analysed
  /\ cluster.previous_size = 0 /\ cluster.current_size >= 10
  /\ cluster.unique_pairs > cluster.datapoint_count
  /\ analysis.contradiction_analysis.risk_score = 1000
  /\ analysis.growth_analysis.risk_score >= 100

\* the analyzer found too little to work on and said so
Insufficient(r, indicator) ==
  /\ r.risk_score = 0
  /\ ~r[indicator]
  /\ "reason" \in DOMAIN r

\* C15: on a cluster with fewer than 2 datapoints or fewer than 2 parsable
\* timestamps detect_rapid_growth, and on a cluster with fewer than 3
\* datapoints or fewer than 3 parsable timestamps track_narrative_evolution,
\* returns risk_score 0 with the indicator false and a reason, and does not
\* raise; a datapoint whose timestamp cannot be parsed is left out of the
\* counts instead of failing the call.
C15_InsufficientData ==
  /\ detect_rapid_growth(cluster) # {} /\ track_narrative_evolution(cluster) # {}
  /\ (cluster.datapoint_count < 2 \/ cluster.timestamps < 2) =>
       /\ \A r \in detect_rapid_growth(cluster) : Insufficient(r, "is_rapid_growth")
       /\ Analysed => Insufficient(analysis.growth_analysis, "is_rapid_growth")
  /\ (cluster.datapoint_count < 3 \/ cluster.timestamps < 3) =>
       /\ \A r \in track_narrative_evolution(cluster) : Insufficient(r, "has_evolution")
       /\ Analysed => Insufficient(analysis.evolution_analysis, "has_evolution")
  /\ (Analysed /\ cluster.timestamps >= 2) =>
       analysis.growth_analysis.current_size + analysis.growth_analysis.previous_size
         <= cluster.timestamps

\* an analysis of a large cluster in which one timestamp could be parsed
C15_Witness ==
  /\ Analysed
  /\ cluster.datapoint_count = MaxSize
  /\ cluster.timestamps = 1
  /\ analysis.growth_analysis.reason = "Insufficient valid timestamps"
  /\ analysis.evolution_analysis.reason = "Insufficient valid timestamps"

\* C17: for a non-empty cluster analyze_source_credibility returns the
\* clamp to [0,1] of 0.4*(1 - credible_ratio) + 0.3*min(questionable_count /
\* total, 1) - bonus, the bonus being 0.2 whenever a fact-checker source is
\* present, 0.15 when none is present and credible_ratio >= 0.5, and 0
\* otherwise.
C17_CredibilityRisk ==
  Analysed =>
    LET total == cluster.datapoint_count
        credible_ratio == Frac(cluster.credible_count, total)
        bonus == IF cluster.fact_checkers_present THEN Frac(2, 10)
                 ELSE IF ~FracLess(credible_ratio, Frac(5, 10)) THEN Frac(15, 100)
                 ELSE Zero
        risk == FracSub(FracAdd(FracMul(Frac(4, 10), FracSub(One, credible_ratio)),
                                FracMul(Frac(3, 10),
                                        FracMin(Frac(cluster.questionable_count, total), One))),
                        bonus)
    IN analysis.credibility_analysis.risk_score \in Round3(FracMax(Zero, FracMin(One, risk)))

\* C18: detect_contradictions returns risk 0 when there is no contradicting
\* pair; otherwise, with ratio = distinct pairs / datapoints, the risk is
\* (ratio - 0.2) / 0.8 capped at 1 when ratio > 0.2 and 0.5 * ratio when
\* ratio <= 0.2; a 10-member cluster with 1 pair gets a risk <= 0.05 and
\* with 4 pairs a risk in (0.2, 0.3].
C18_ContradictionRisk ==
  (Analysed /\ cluster.datapoint_count >= 2) =>
    LET pairs == cluster.unique_pairs
        ratio == Frac(pairs, cluster.datapoint_count)
        risk == IF pairs = 0 THEN Zero
                ELSE IF FracLess(Frac(2, 10), ratio)
                THEN FracMin(One, FracDiv(FracSub(ratio, Frac(2, 10)), Frac(8, 10)))
                ELSE FracMul(Frac(5, 10), ratio)
        reported == analysis.contradiction_analysis.risk_score
    IN /\ reported \in Round3(risk)
       /\ analysis.contradiction_analysis.contradiction_count = pairs
       /\ (cluster.datapoint_count = 10 /\ pairs = 1) => reported <= 50
       /\ (cluster.datapoint_count = 10 /\ pairs = 4) => (200 < reported /\ reported <= 300)

\* the analysis of a 10-member cluster with 4 contradicting pairs
C18_Witness ==
  /\ Analysed
  /\ cluster.datapoint_count = 10
  /\ cluster.unique_pairs = 4
  /\ analysis.contradiction_analysis.risk_score = 250

----------------------------------------------------------------------------
(* Claims about one analyze_all_clusters call (SpecBatch).                 *)

BatchDone == batch.result # NoResult

\* the enumerated cluster fails: an analyzer raises or nothing is found under its id
Fails(c) == c.raises \/ c.evidence.datapoint_count = 0

\* the entry is a full analysis
Successful(a) == "risk_level" \in DOMAIN a

\* C11: whichever enumerated clusters fail, the batch completes and its
\* result holds exactly one entry per enumerated cluster: an error entry
\* for each failing cluster and a full analysis for every other one,
\* those enumerated after a failing one included.
C11_BatchSurvivesFailures ==
  BatchDone =>
    LET enumerated == batch.clusters_to_analyze
        analyses == batch.result.analyses
    IN /\ DOMAIN analyses = DOMAIN enumerated
       /\ batch.result.total_clusters_analyzed = Len(enumerated)
       /\ \A i \in DOMAIN enumerated :
            IF Fails(enumerated[i])
            THEN "error" \in DOMAIN analyses[i] /\ ~Successful(analyses[i])
            ELSE analyses[i] \in analyze_cluster(enumerated[i].evidence) /\ Successful(analyses[i])

\* a batch whose first cluster raised and whose last one was analysed
C11_Witness ==
  /\ BatchDone
  /\ Len(batch.clusters_to_analyze) = MaxBatch
  /\ batch.clusters_to_analyze[1].raises
  /\ Successful(batch.result.analyses[MaxBatch])

\* C12: the high, medium and low counts of the summary each equal the
\* number of successfully analysed clusters of that risk level, so that
\* they sum to the number of successful analyses, and average_risk_score
\* is the mean over the successful analyses.
C12_CountsOverSuccessful ==
  BatchDone =>
    LET analyses == batch.result.analyses
        successful == {i \in DOMAIN analyses : Successful(analyses[i])}
        Count(level) == Cardinality({i \in successful : analyses[i].risk_level = level})
        scores == [i \in successful |-> analyses[i].overall_risk_score]
    IN /\ batch.result.high_risk_clusters = Count("high")
       /\ batch.result.medium_risk_clusters = Count("medium")
       /\ batch.result.low_risk_clusters = Count("low")
       /\ batch.result.high_risk_clusters + batch.result.medium_risk_clusters
            + batch.result.low_risk_clusters = Cardinality(successful)
       /\ batch.result.average_risk_score \in
            (IF successful = {} THEN {0}
             ELSE Round3(Frac(SumOf(scores, successful), 1000 * Cardinality(successful))))

----------------------------------------------------------------------------
(* Claims about two consecutive analyze_cluster calls (SpecReanalyze).     *)

----------------------------------------------------------------------------
(* Claims about the growth analysis of a cluster with given timestamps     *)
(* (SpecGrowth).                                                           *)

\* the newest timestamp
Latest == Max(Published(timeline))

\* the points with timestamp >= latest - W
Current == CountIn(timeline, {h \in Hours : h >= Latest - WindowHours})

\* the points with timestamp in [latest - 2W, latest - W)
Previous ==
  CountIn(timeline, {h \in Hours : Latest - 2 * WindowHours <= h /\ h < Latest - WindowHours})

\* the growth analysis ran on at least two timestamps
GrowthAnalysed == Analysed /\ CountIn(timeline, Hours) >= 2

\* is_rapid_growth is true exactly when |current| >= 10 and
\* (|previous| = 0 or |current| >= 10 * |previous|)
RapidGrowthRule ==
  LET growth == analysis.growth_analysis
  IN /\ growth.current_size = Current
     /\ growth.previous_size = Previous
     /\ growth.growth_rate.infinite <=> (Previous = 0 /\ Current > 0)
     /\ growth.is_rapid_growth <=>
          (Current >= 10 /\ (Previous = 0 \/ Current >= 10 * Previous))

\* C16: detect_rapid_growth reports growth_rate = |current| / |previous|
\* (infinite when previous is empty), and is_rapid_growth by the rule above.
C16_GrowthRateExact ==
  GrowthAnalysed =>
    /\ RapidGrowthRule
    /\ Previous > 0 =>
         analysis.growth_analysis.growth_rate.hundredths * Previous = 100 * Current

\* C16 (amended): the reported growth_rate is |current| / |previous| rounded
\* to 2 decimals (infinite when previous is empty), and is_rapid_growth
\* follows the rule on the counts themselves.
C16_GrowthRateRounded ==
  GrowthAnalysed =>
    /\ RapidGrowthRule
    /\ Previous > 0 =>
         analysis.growth_analysis.growth_rate.hundredths \in Round2(Frac(Current, Previous))

\* ten current points at the first instant of the recent window and none
\* before: rapid growth at an infinite rate
C16_Witness ==
  /\ GrowthAnalysed
  /\ Current = 10 /\ Previous = 0
  /\ CountIn(timeline, {h \in Hours : h > Latest - WindowHours}) < 10
  /\ CountIn(timeline, Hours) > 10
  /\ analysis.growth_analysis.is_rapid_growth
  /\ analysis.growth_analysis.growth_rate.infinite

----------------------------------------------------------------------------
(* Claims about one clustering call on embeddings of several lengths       *)
(* (SpecDims).                                                             *)

\* the valid embeddings of the list are not all of one length
MixedLengths(datapoints) ==
  \E d, e \in {x \in Range(datapoints) : ListEmbedding(x)} :
    Len(Embedding(d).vec) # Len(Embedding(e).vec)

\* C19: when the valid embeddings passed to cluster_datapoints are not all
\* of one length the call fails: it returns no mapping and no cluster-id
\* write reaches the store.
C19_MixedLengthsRejected ==
  [][(call'.op = "cluster_datapoints" /\ MixedLengths(input')) =>
       /\ raised'
       /\ clusters' = <<>>
       /\ writes' = <<>>
       /\ store' = store]_vars

\* a failed density call on a list in which the odd embedding comes last,
\* after two that would have formed a cluster
C19_Witness ==
  /\ Density
  /\ raised
  /\ Len(input) >= 3
  /\ input[Len(input)] \in OtherLength
  /\ <<input[1], input[2]>> \in Near
  /\ input[1] # input[2]

----------------------------------------------------------------------------
(* Claims about two clustering runs whose store updates interleave         *)
(* (SpecConcurrent).                                                       *)

\* both runs have made all their updates
RunsDone == runs # NoRuns /\ \A r \in {1, 2} : runs.made[r] = Len(runs.issued[r])

\* the update requests of the two runs
Requests == Range(runs.issued[1]) \cup Range(runs.issued[2])

\* the request a step of run r carries out
Request(r) == runs.issued[r][runs.made[r] + 1]

\* C20: update_cluster_id(id, c) changes only the record of datapoint id,
\* and applying it a second time changes nothing; when the writes of two
\* clustering runs interleave in any order, every datapoint that a run wrote
\* ends with a (cluster_id, clustered = true) pair that one of the two runs
\* wrote for it, and a datapoint neither run wrote is as it was.
C20_InterleavedWrites ==
  /\ [](RunsDone =>
         \A d \in DOMAIN store :
           IF d \in Written(runs.issued[1]) \cup Written(runs.issued[2])
           THEN \E w \in Requests :
                  w[1] = d /\ store[d] = [cluster_id |-> w[2], clustered |-> TRUE]
           ELSE store[d] = runs.before[d])
  /\ [][\A r \in {1, 2} :
         (runs # NoRuns /\ runs'.made[r] # runs.made[r]) =>
           /\ DOMAIN store' = DOMAIN store
           /\ \A d \in DOMAIN store \ {Request(r)[1]} : store'[d] = store[d]
           /\ store'[Request(r)[1]] = [cluster_id |-> Request(r)[2], clustered |-> TRUE]
           /\ update_cluster_id(store', Request(r)[1], Request(r)[2]) = store']_vars

\* both runs wrote two datapoints under different cluster ids, the store
\* holds for one the id of the first run and for the other the id of the
\* second, and a clustered datapoint that neither wrote kept its record
C20_Witness ==
  /\ RunsDone
  /\ \E d, e \in DOMAIN store :
       /\ d # e
       /\ \E c \in {0, 1} :
            /\ <<d, ClusterId(c)>> \in Range(runs.issued[1])
            /\ <<d, ClusterId(1 - c)>> \in Range(runs.issued[2])
            /\ <<e, ClusterId(1 - c)>> \in Range(runs.issued[1])
            /\ <<e, ClusterId(c)>> \in Range(runs.issued[2])
            /\ store[d].cluster_id = ClusterId(c)
            /\ store[e].cluster_id = ClusterId(c)
  /\ \E d \in DOMAIN store :
       /\ d \notin Written(runs.issued[1]) \cup Written(runs.issued[2])
       /\ store[d].clustered
       /\ store[d] = runs.before[d]

----------------------------------------------------------------------------
(* Claims about one cluster_datapoints_by_ids call (SpecByIds).            *)

ByIds == call.op = "cluster_datapoints_by_ids"

\* the clusters the algorithm forms of the requested datapoints and their
\* context, as the call in `call` runs it on the store st
Formed(st) ==
  LET all_datapoints == ByIdsDatapoints(st, input, call.include_context)
  IN IF all_datapoints = <<>> THEN <<>>
     ELSE Dispatch(all_datapoints, call.min_cluster_size, call.use_dbscan).clusters

\* C21: with include_context = true, cluster_datapoints_by_ids returns every
\* cluster that holds at least one requested datapoint, with all its members
\* (those of the context too), and every cluster it returns holds at least
\* one requested datapoint.
C21_ClustersOfRequested ==
  (ByIds /\ call.include_context /\ ~raised) =>
    /\ \A c \in DOMAIN Formed(store) :
         Range(Formed(store)[c]) \cap Range(input) # {} =>
           c \in DOMAIN clusters /\ clusters[c] = Formed(store)[c]
    /\ \A c \in DOMAIN clusters : Range(clusters[c]) \cap Range(input) # {}

----------------------------------------------------------------------------
(* Claims about one analyze_source_credibility call (SpecSources).         *)

SourcesAnalysed == sources.report # NoReport

\* the keys of the table that hold the name or are held by it, in lower case
SubstringKeys(source_name) ==
  {k \in DOMAIN CREDIBLE_SOURCES :
     \/ In(lower(CREDIBLE_SOURCES[k].known_source), lower(source_name))
     \/ In(lower(source_name), lower(CREDIBLE_SOURCES[k].known_source))}

\* C22: a source name that is a key of the table gets the score of that
\* key; otherwise the score of a key it matches as a substring without
\* regard to case; otherwise 0.5. A name that matches no key gets 0.5 and is
\* counted neither as credible nor as questionable.
C22_SourceCredibility ==
  SourcesAnalysed =>
    /\ \A i \in DOMAIN sources.names :
         LET name == sources.names[i]
             exact == {k \in DOMAIN CREDIBLE_SOURCES :
                         CREDIBLE_SOURCES[k].known_source = name}
         IN IF exact # {}
            THEN \E k \in exact : sources.credibility[i] = CREDIBLE_SOURCES[k].credibility
            ELSE IF SubstringKeys(name) # {}
            THEN \E k \in SubstringKeys(name) :
                   sources.credibility[i] = CREDIBLE_SOURCES[k].credibility
            ELSE sources.credibility[i] = 50
    /\ (/\ sources.names # <<>>
        /\ \A i \in DOMAIN sources.names : SubstringKeys(sources.names[i]) = {})
       => sources.report.credible_count = 0 /\ sources.report.questionable_count = 0

----------------------------------------------------------------------------
(* Claims about one detect_contradictions call (SpecArticles).              *)

ContradictionsAnalysed == articles.report # NoReport

\* the two claim texts hold opposite members of one keyword pair
Opposite(text1, text2) ==
  \E k \in DOMAIN contradiction_patterns :
    \/ /\ In(contradiction_patterns[k][1], lower(text1))
       /\ In(contradiction_patterns[k][2], lower(text2))
    \/ /\ In(contradiction_patterns[k][2], lower(text1))
       /\ In(contradiction_patterns[k][1], lower(text2))

\* C23: every pair of members that both carry an embedding, whose cosine
\* similarity is at least the threshold and whose claim texts hold opposite
\* keywords is counted, whatever the order in which the store returns the
\* members and whether or not another member lacks an embedding.
C23_QualifyingPairsCounted ==
  ContradictionsAnalysed =>
    \A i, j \in DOMAIN articles.datapoints :
      (/\ i < j
       /\ Truthy(articles.datapoints[i].embedding)
       /\ Truthy(articles.datapoints[j].embedding)
       /\ SimilarityAtLeast(articles.datapoints[i].embedding.vec,
                            articles.datapoints[j].embedding.vec, ContradictionThresholdPct)
       /\ Opposite(ClaimText(articles.datapoints[i]), ClaimText(articles.datapoints[j])))
      => {articles.datapoints[i].id, articles.datapoints[j].id} \in articles.pairs

----------------------------------------------------------------------------
(* Claims about one _create_time_windows call (SpecWindows).               *)

\* C24: _create_time_windows splits a list sorted by time into non-empty
\* windows that, one after the other, make up the list: every point is in
\* one window and the order is kept. Every point of a window is at most
\* window_hours after the first point of its window, and the first point of
\* every later window is more than window_hours after the first point of
\* the window before it.
C24_WindowsPartition ==
  windows.called =>
    /\ FlattenSeq(windows.result) = windows.datapoints_with_time
    /\ \A k \in DOMAIN windows.result :
         /\ windows.result[k] # <<>>
         /\ \A i \in DOMAIN windows.result[k] :
              windows.result[k][i][1] - windows.result[k][1][1] <= WindowHours
         /\ k > 1 => windows.result[k][1][1] - windows.result[k - 1][1][1] > WindowHours

\* a window of three or more points whose last point is exactly
\* window_hours after its first, followed by a window that opens within
\* window_hours of that last point
C24_Witness ==
  /\ windows.called
  /\ \E k \in DOMAIN windows.result :
       LET w == windows.result[k]
       IN /\ Len(w) >= 3
          /\ w[Len(w)][1] - w[1][1] = WindowHours
          /\ k + 1 \in DOMAIN windows.result
          /\ windows.result[k + 1][1][1] - w[Len(w)][1] <= WindowHours

----------------------------------------------------------------------------
(* Claims about the pass of cluster_datapoints_simple (SpecCall).          *)

\* the datapoints of the list that are in no returned cluster
Unclustered(i) == HasEmbedding(input[i]) /\ input[i] \notin Members(clusters)

\* the group that the seed at place i forms with the later datapoints that
\* are in no returned cluster and similar to it
OpenGroup(i) ==
  {i} \cup {j \in DOMAIN input :
              /\ j > i
              /\ Unclustered(j)
              /\ ~CosineRaises(Embedding(input[i]), Embedding(input[j]))
              /\ SimilarityAtLeast(Embedding(input[i]).vec, Embedding(input[j]).vec,
                                   SimpleThresholdPct)}

\* C25: in cluster_datapoints_simple only the members of kept clusters are
\* skipped as seeds and as candidates; the members of a discarded group
\* stay eligible, so when the pass ends no datapoint outside the clusters
\* can still form a group of min_cluster_size with the later similar
\* datapoints outside the clusters.
C25_DiscardedStayEligible ==
  (Fallback /\ ~raised) =>
    \A i \in DOMAIN input :
      Unclustered(i) => Cardinality(OpenGroup(i)) < call.min_cluster_size

----------------------------------------------------------------------------
(* Claims about the cluster ids that runs leave in the store (SpecCall).   *)

\* the datapoints that get_datapoints_by_cluster(cluster_id) returns
CarryingId(cluster_id) == Range(get_datapoints_by_cluster(store, cluster_id))

\* C26: the datapoints that carry one persisted cluster id were put into
\* one cluster by one run: after a run on a store that an earlier run may
\* have written, whoever carries an id that this run gave out is a member
\* of the run's cluster of that id, never one of a cluster of the earlier
\* run.
C26_IdOfOneRun ==
  \A cluster_id \in DOMAIN clusters : CarryingId(cluster_id) \subseteq Range(clusters[cluster_id])

----------------------------------------------------------------------------
(* Claims about analyze_cluster beside a clustering run (SpecRacing).      *)

\* C27: within one analyze_cluster call, the list whose length is reported
\* as datapoint_count and the lists the four analyzers work on hold the
\* same datapoints, also while a clustering run is writing cluster ids.
C27_OneMembership ==
  \A k \in DOMAIN reads.got : reads.got[k] = reads.got[1]

----------------------------------------------------------------------------
(* Claims about the risk level and the recommendation of one record         *)
(* (SpecAnalyze).                                                           *)

\* C28: in every analyze_cluster result the risk_level agrees with the
\* reported overall_risk_score, the score rounded to 3 decimals: the
\* reported score is >= 0.6 exactly when the level is "high" and < 0.35
\* exactly when the level is "low".
C28_LevelOfReportedScore ==
  Analysed =>
    /\ analysis.overall_risk_score >= 600 <=> analysis.risk_level = "high"
    /\ analysis.overall_risk_score < 350 <=> analysis.risk_level = "low"

\* C28 (amended): the risk_level is decided on the weighted sum before it is
\* rounded: "high" exactly when the sum is >= 0.6 and "low" exactly when it
\* is < 0.35. The reported score is the sum rounded to 3 decimals, so a
\* reported score above 0.6 comes with "high", one below 0.6 with another
\* level, one above 0.35 with a level other than "low" and one below 0.35
\* with "low"; a reported score of exactly 0.6 or 0.35 can come with the
\* level below.
C28_LevelOfUnroundedScore ==
  Analysed =>
    /\ analysis.risk_level = "high" <=> AtLeast(analysis.unrounded, 6000)
    /\ analysis.risk_level = "low" <=> ~AtLeast(analysis.unrounded, 3500)
    /\ analysis.overall_risk_score > 600 => analysis.risk_level = "high"
    /\ analysis.overall_risk_score < 600 => analysis.risk_level # "high"
    /\ analysis.overall_risk_score > 350 => analysis.risk_level # "low"
    /\ analysis.overall_risk_score < 350 => analysis.risk_level = "low"

\* an analysis whose sum is under 0.35 by less than 0.0005 without any
\* float error: it reports the score 0.35 and the level "low"
C28_Witness ==
  /\ Analysed
  /\ analysis.unrounded.side = 0
  /\ analysis.unrounded.value \in 3496..3499
  /\ analysis.overall_risk_score = 350
  /\ analysis.risk_level = "low"

\* C29: in every analyze_cluster result the recommendation is consistent
\* with the risk_level: the level "high" comes with the high-risk
\* recommendation, and the low-risk recommendation comes only with the
\* level "low".
C29_RecommendationOfLevel ==
  Analysed =>
    /\ analysis.risk_level = "high" => analysis.recommendation = HighRiskText
    /\ analysis.recommendation = LowRiskText => analysis.risk_level = "low"

\* C29 (amended): the recommendation is cut at 0.7 and 0.4 and the level
\* at 0.6 and 0.35, so the implications run the other way: the high-risk
\* recommendation comes only with the level "high", the level "low" only
\* with the monitor or the low-risk recommendation; the level "high" comes
\* with the high-risk or the medium-risk recommendation and the low-risk
\* recommendation with the level "low" or "medium".
C29_RecommendationWithinLevel ==
  Analysed =>
    /\ analysis.recommendation = HighRiskText => analysis.risk_level = "high"
    /\ analysis.risk_level = "low" => analysis.recommendation \in {MonitorText, LowRiskText}
    /\ analysis.risk_level = "high" => analysis.recommendation \in {HighRiskText, MediumRiskText}
    /\ analysis.recommendation = LowRiskText => analysis.risk_level \in {"low", "medium"}

\* an analysis of level "high" whose sum is under 0.7: it recommends a
\* review, not the immediate one
C29_Witness ==
  /\ Analysed
  /\ analysis.risk_level = "high"
  /\ analysis.recommendation = MediumRiskText

----------------------------------------------------------------------------
(* Claims about the contradiction risk as the pairs grow (SpecAnalyze).    *)

\* the analysed cluster with one distinct contradictory pair more
OnePairMore == [cluster EXCEPT !.unique_pairs = @ + 1]

\* the analysed cluster of two datapoints or more can hold one pair more
CanHoldOnePairMore ==
  /\ Analysed
  /\ cluster.datapoint_count >= 2
  /\ cluster.unique_pairs + 1 <= (cluster.datapoint_count * (cluster.datapoint_count - 1)) \div 2

\* the contradiction risk reported is at most the one of the cluster with
\* one pair more
NotLowered ==
  \A more \in detect_contradictions(OnePairMore) :
    analysis.contradiction_analysis.risk_score <= more.risk_score

\* C30: for a fixed number of datapoints the contradiction risk_score is
\* non-decreasing in the number of distinct contradictory pairs: one pair
\* more never lowers the risk.
C30_RiskNonDecreasing == CanHoldOnePairMore => NotLowered

\* the ratio pairs / datapoints is above 0.2 already, or is at most 0.2 also
\* with one pair more
SameBranch ==
  \/ 5 * cluster.unique_pairs > cluster.datapoint_count
  \/ 5 * (cluster.unique_pairs + 1) <= cluster.datapoint_count

\* C30 (amended): the risk is non-decreasing in the number of pairs as long
\* as the ratio of pairs to datapoints stays on one side of 0.2: ratio * 0.5
\* up to 0.2, (ratio - 0.2) / 0.8 capped at 1.0 above. The pair that takes
\* the ratio over 0.2 can lower the risk.
C30_RiskNonDecreasingByBranch == (CanHoldOnePairMore /\ SameBranch) => NotLowered

\* a cluster with a ratio above 0.2 was analysed, and one pair more raises
\* its risk
C30_Witness ==
  /\ CanHoldOnePairMore
  /\ 5 * cluster.unique_pairs > cluster.datapoint_count
  /\ \A more \in detect_contradictions(OnePairMore) :
       analysis.contradiction_analysis.risk_score < more.risk_score

====
